---- MODULE Spec2Model ----
(***************************************************************************)
(* State-machine model of simplegram.py: the chat-session state, the       *)
(* command dispatcher loop of main() and the NewMessage listener, with the *)
(* Telegram backend as the environment.                                    *)
(*                                                                         *)
(* Strings are sequences of one-character strings, so that strip, split,   *)
(* startswith, isdigit, int and lower are computed, not tabulated.  The    *)
(* character "sup2" stands for U+00B2 (superscript two), a character for   *)
(* which str.isdigit() is True and int() raises ValueError.                *)
(*                                                                         *)
(* One step of the model is one run of a task between two suspension       *)
(* points (awaits) of the asyncio loop.                                    *)
(***************************************************************************)
EXTENDS Integers, Sequences, FiniteSets, TLC

VARIABLES
    current_chat,     \* <<>> (None) or <<ChatSession>>
    chat_list_cache,  \* entities listed by the last /chats
    user_settings,    \* the settings dictionary
    pc,               \* where the dispatcher task is suspended
    locals,           \* the dispatcher's local variables that live across an await
    store,            \* backend: peer id -> messages of that conversation, oldest first
    updates,          \* backend: NewMessage events pushed and not yet handled
    next_msg_id,      \* backend: id of the next message created
    today,            \* the calendar day (datetime.now().date())
    msg_clean,        \* the stripped input line, while a send or a /reply scan is awaited
                      \* (and the line that raised, once crashed); <<>> otherwise
    out,              \* history: the styles (error, system, info, plain, sent, date)
                      \* of the lines printed by the last step
    call              \* history: the backend request the last step issued, or the
                      \* await it ended (answered) and how (failed)

vars == <<current_chat, chat_list_cache, user_settings, pc, locals, store,
          updates, next_msg_id, today, msg_clean, out, call>>

----------------------------------------------------------------------------
(* Bounds of the model *)

MaxMsgs == 3
MaxQueue == 1
MaxDay == 2

(* Program constants *)

SnippetLen == 15
DefaultHistoryLimit == 20
HistoryCap == 500
MaxDefaultHistory == 100
ReplyLookback == 50

----------------------------------------------------------------------------
(* String literals of the command table *)

s_exit == <<"/", "e", "x", "i", "t">>
s_exit2 == <<"-", "-", "e", "x", "i", "t">>
s_help == <<"/", "h", "e", "l", "p">>
s_h == <<"/", "h">>
s_settings == <<"/", "s", "e", "t", "t", "i", "n", "g", "s">>
s_set_sp == <<"/", "s", "e", "t", " ">>
s_helpword == <<"h", "e", "l", "p">>
s_defaultHistory == <<"d", "e", "f", "a", "u", "l", "t", "H", "i", "s", "t", "o", "r", "y">>
s_autoClearMsgLog == <<"a", "u", "t", "o", "C", "l", "e", "a", "r", "M", "s", "g", "L", "o", "g">>
s_true == <<"t", "r", "u", "e">>
s_false == <<"f", "a", "l", "s", "e">>
s_r_off == <<"/", "r", " ", "o", "f", "f">>
s_slashslash == <<"/", "/">>
s_out == <<"/", "o", "u", "t">>
s_status == <<"/", "s", "t", "a", "t", "u", "s">>
s_s == <<"/", "s">>
s_re == <<"/", "r", "e">>
s_reply == <<"/", "r", "e", "p", "l", "y">>
s_cancel == <<"c", "a", "n", "c", "e", "l">>
s_delete == <<"/", "d", "e", "l", "e", "t", "e">>
s_del == <<"/", "d", "e", "l">>
s_rm == <<"/", "r", "m">>
s_contacts == <<"/", "c", "o", "n", "t", "a", "c", "t", "s">>
s_abc == <<"a", "b", "c">>
s_all == <<"a", "l", "l">>
s_users == <<"u", "s", "e", "r", "s">>
s_user == <<"u", "s", "e", "r">>
s_groups == <<"g", "r", "o", "u", "p", "s">>
s_group == <<"g", "r", "o", "u", "p">>
s_channels == <<"c", "h", "a", "n", "n", "e", "l", "s">>
s_channel == <<"c", "h", "a", "n", "n", "e", "l">>
s_chats == <<"/", "c", "h", "a", "t", "s">>
s_c_sp == <<"/", "c", " ">>
s_unread == <<"/", "u", "n", "r", "e", "a", "d">>
s_recipient == <<"/", "r", "e", "c", "i", "p", "i", "e", "n", "t">>
s_r_sp == <<"/", "r", " ">>
s_history == <<"/", "h", "i", "s", "t", "o", "r", "y">>
s_h_sp == <<"/", "h", " ">>
s_at == <<"@">>
s_plus == <<"+">>
s_y == <<"y">>

----------------------------------------------------------------------------
(* Python string operations *)

AsciiDigits == <<"0", "1", "2", "3", "4", "5", "6", "7", "8", "9">>
UpperCase == <<"A", "B", "C", "D", "E", "F", "G", "H", "I", "J", "K", "L", "M",
               "N", "O", "P", "Q", "R", "S", "T", "U", "V", "W", "X", "Y", "Z">>
LowerCase == <<"a", "b", "c", "d", "e", "f", "g", "h", "i", "j", "k", "l", "m",
               "n", "o", "p", "q", "r", "s", "t", "u", "v", "w", "x", "y", "z">>

Range(s) == {s[i] : i \in DOMAIN s}

startswith(s, prefix) ==
    /\ Len(s) >= Len(prefix)
    /\ SubSeq(s, 1, Len(prefix)) = prefix

\* sub in s
contains(s, sub) ==
    \E i \in 1..(Len(s) - Len(sub) + 1) : SubSeq(s, i, i + Len(sub) - 1) = sub

RECURSIVE lstrip(_)
lstrip(s) == IF s # <<>> /\ Head(s) = " " THEN lstrip(Tail(s)) ELSE s

RECURSIVE rstrip(_)
rstrip(s) ==
    IF s # <<>> /\ s[Len(s)] = " " THEN rstrip(SubSeq(s, 1, Len(s) - 1)) ELSE s

strip(s) == rstrip(lstrip(s))

RECURSIVE SplitAcc(_, _, _)
SplitAcc(s, cur, acc) ==
    IF s = <<>> THEN (IF cur = <<>> THEN acc ELSE Append(acc, cur))
    ELSE IF Head(s) = " "
         THEN SplitAcc(Tail(s), <<>>, IF cur = <<>> THEN acc ELSE Append(acc, cur))
         ELSE SplitAcc(Tail(s), Append(cur, Head(s)), acc)

\* str.split() on whitespace
split(s) == SplitAcc(s, <<>>, <<>>)

RECURSIVE join(_)
join(tokens) ==
    IF tokens = <<>> THEN <<>>
    ELSE IF Len(tokens) = 1 THEN tokens[1]
    ELSE tokens[1] \o <<" ">> \o join(Tail(tokens))

lower_char(c) ==
    IF \E i \in DOMAIN UpperCase : UpperCase[i] = c
    THEN LowerCase[CHOOSE i \in DOMAIN UpperCase : UpperCase[i] = c]
    ELSE c

lower(s) == [i \in DOMAIN s |-> lower_char(s[i])]

\* str.isdigit(): every character is a digit, and there is at least one; the
\* superscript digits count as digits.
isdigit(s) == s # <<>> /\ \A i \in DOMAIN s : s[i] \in Range(AsciiDigits) \cup {"sup2"}

DigitValue(c) == (CHOOSE i \in DOMAIN AsciiDigits : AsciiDigits[i] = c) - 1

AllAsciiDigits(s) == s # <<>> /\ \A i \in DOMAIN s : s[i] \in Range(AsciiDigits)

\* int(s) returns a value (otherwise it raises ValueError)
int_ok(s) ==
    IF s # <<>> /\ Head(s) \in {"-", "+"} THEN AllAsciiDigits(Tail(s))
    ELSE AllAsciiDigits(s)

RECURSIVE DecimalValue(_)
DecimalValue(s) ==
    IF s = <<>> THEN 0
    ELSE 10 * DecimalValue(SubSeq(s, 1, Len(s) - 1)) + DigitValue(s[Len(s)])

int(s) ==
    IF Head(s) = "-" THEN 0 - DecimalValue(Tail(s))
    ELSE IF Head(s) = "+" THEN DecimalValue(Tail(s))
    ELSE DecimalValue(s)

RECURSIVE html_escape(_)
html_escape(s) ==
    IF s = <<>> THEN <<>>
    ELSE (CASE Head(s) = "&" -> <<"&", "a", "m", "p", ";">>
            [] Head(s) = "<" -> <<"&", "l", "t", ";">>
            [] Head(s) = ">" -> <<"&", "g", "t", ";">>
            [] Head(s) = "\"" -> <<"&", "q", "u", "o", "t", ";">>
            [] Head(s) = "'" -> <<"&", "#", "x", "2", "7", ";">>
            [] OTHER -> <<Head(s)>>) \o html_escape(Tail(s))

\* HTML(text) raises when the text is not well-formed markup
html_raises(s) == \E i \in DOMAIN s : s[i] \in {"<", "&"}

----------------------------------------------------------------------------
(* The backend's dialogs, most recent first, and its messages *)

Entity(id, kind, bot, name, username) ==
    [id |-> id, kind |-> kind, bot |-> bot, name |-> name, username |-> username]

Dialogs ==
    << Entity(1, "User", FALSE, <<"b", "o", "b", "b", "y">>, <<"b", "b">>),
       Entity(2, "Group", FALSE, <<"b", "o", "b">>, <<>>) >>

PeerIds == {Dialogs[i].id : i \in DOMAIN Dialogs}

\* Text of the messages that other parties send
InboundTexts == { <<"y", "o">> }

Message(id, chat_id, is_out, date, text) ==
    [id |-> id, chat_id |-> chat_id, out |-> is_out, date |-> date, text |-> text]

\* entity.first_name + last_name, or entity.title: the entity's name here
get_display_name(entity) == entity.name

\* Text messages only: the escaped text
format_message_content(message) == html_escape(message.text)

Reverse(s) == [i \in DOMAIN s |-> s[Len(s) + 1 - i]]

\* client.get_messages(entity, limit): the most recent messages, newest first
get_messages(peer, limit) ==
    LET all == store[peer]
        n == IF limit < Len(all) THEN limit ELSE Len(all)
    IN  Reverse(SubSeq(all, Len(all) - n + 1, Len(all)))

----------------------------------------------------------------------------
(* ChatSession *)

None == <<>>

\* A constructor that would carry the index of the session it replaces over
ChatSession_keeps_table(entity) ==
    [entity |-> entity,
     name |-> get_display_name(entity),
     last_message_date |-> 0,
     reply_to_msg_id |-> 0,
     reply_snippet |-> <<>>,
     message_index_map |->
         IF current_chat = <<>> THEN <<>> ELSE current_chat[1].message_index_map,
     next_index |-> IF current_chat = <<>> THEN 1 ELSE current_chat[1].next_index]

ChatSession(entity) ==
    [entity |-> entity,
     name |-> get_display_name(entity),
     last_message_date |-> 0,            \* 0: None
     reply_to_msg_id |-> 0,              \* 0: None (message ids start at 1)
     reply_snippet |-> <<>>,             \* <<>>: None
     message_index_map |-> <<>>,         \* visual index -> message
     next_index |-> 1]

chat == current_chat[1]

\* An assignment that would leave next_index where it was
IndexMessage_in_place(c, message) ==
    [c EXCEPT !.message_index_map = (c.next_index :> message) @@ @]

\* idx = next_index; message_index_map[idx] = message; next_index += 1
IndexMessage(c, message) ==
    [c EXCEPT !.message_index_map = (c.next_index :> message) @@ @,
              !.next_index = @ + 1]

RECURSIVE IndexAll(_, _)
IndexAll(c, messages) ==
    IF messages = <<>> THEN c
    ELSE IndexAll(IndexMessage(c, Head(messages)), Tail(messages))

\* text[-15:] if len(text) > 15 else text
Snippet(text) ==
    IF Len(text) > SnippetLen THEN SubSeq(text, Len(text) - SnippetLen + 1, Len(text))
    ELSE text

\* A reply target that is the message after the chosen one
SetReplyTarget_next_id(c, target_msg) ==
    [c EXCEPT !.reply_to_msg_id = target_msg.id + 1,
              !.reply_snippet = Snippet(format_message_content(target_msg))]

SetReplyTarget(c, target_msg) ==
    [c EXCEPT !.reply_to_msg_id = target_msg.id,
              !.reply_snippet = Snippet(format_message_content(target_msg))]

\* A cancellation that would leave the snippet of the prompt in place
ClearReplyTarget_keeps_snippet(c) ==
    [c EXCEPT !.reply_to_msg_id = 0]

ClearReplyTarget(c) ==
    [c EXCEPT !.reply_to_msg_id = 0, !.reply_snippet = <<>>]

----------------------------------------------------------------------------
(* The dispatcher's if/elif chain *)

Branch(line) ==
    IF line = <<>> THEN "empty"
    ELSE IF line \in {s_exit, s_exit2} THEN "exit"
    ELSE IF line \in {s_help, s_h} THEN "help"
    ELSE IF startswith(line, s_settings) \/ startswith(line, s_set_sp)
         THEN "settings"
    ELSE IF line \in {s_r_off, s_slashslash, s_out} THEN "close"
    ELSE IF line \in {s_status, s_s} THEN "status"
    ELSE IF startswith(line, s_re) \/ startswith(line, s_reply) THEN "reply"
    ELSE IF split(line)[1] \in {s_delete, s_del, s_rm} THEN "delete"
    ELSE IF startswith(line, s_contacts) THEN "contacts"
    ELSE IF startswith(line, s_chats) THEN "chats"
    ELSE IF startswith(line, s_c_sp) THEN "jump"
    ELSE IF startswith(line, s_unread) THEN "unread"
    ELSE IF startswith(line, s_recipient) \/ startswith(line, s_r_sp)
         THEN "recipient"
    ELSE IF \/ startswith(line, s_history)
            \/ startswith(line, s_h_sp)
            \/ line = s_h
         THEN "history"
    ELSE "send"

----------------------------------------------------------------------------
(* Input lines typed at the prompt *)

Line(tokens) == join(tokens)

InputLines ==
    { <<>>,
      <<"h", "i">>,
      s_exit,
      s_help,
      <<"/", "s", "e", "t">>,
      Line(<<<<"/", "s", "e", "t">>, s_defaultHistory, <<"2">>>>),
      Line(<<<<"/", "s", "e", "t">>, s_defaultHistory, <<"1", "5", "0">>>>),
      s_r_off,
      s_status,
      s_reply,
      Line(<<s_reply, <<"1">>>>),
      Line(<<s_reply, <<"2">>>>),
      Line(<<s_reply, s_cancel>>),
      Line(<<s_del, <<"1">>, <<"9">>, <<"x">>, <<"2">>>>),
      Line(<<s_del, <<"9">>>>),
      Line(<<s_del, <<"2">>>>),
      Line(<<s_del, <<"1">>, <<"sup2">>>>),
      s_chats,
      Line(<<<<"/", "c">>, <<"1">>>>),
      Line(<<<<"/", "c">>, <<"2">>>>),
      Line(<<<<"/", "c">>, <<"3">>>>),
      Line(<<<<"/", "r">>, <<"b", "o", "b">>>>),
      Line(<<s_recipient, <<"b", "o", "b">>>>),
      Line(<<<<"/", "r">>, <<"z", "e", "d">>>>),
      s_history,
      Line(<<s_h, <<"2">>>>),
      Line(<<s_history, <<"0">>>>),
      Line(<<s_history, <<"sup2">>>>),
      s_contacts,
      s_unread }

\* A message of sixteen characters that renders as nineteen
s_long == <<"a", "<", "b", "c", "d", "e", "f", "g", "h", "i", "j", "k", "l", "m",
            "n", "o">>

\* Further lines, typed in the specifications that look at one command
MoreLines ==
    { Line(<<<<"/", "c">>, <<"0">>>>),
      Line(<<<<"/", "c">>, <<"-", "1">>>>),
      Line(<<<<"/", "c">>, <<"x">>>>),
      <<"/", "c", " ">>,
      Line(<<s_history, <<"5", "0", "1">>>>),
      Line(<<s_history, <<"x">>>>),
      Line(<<<<"/", "s", "e", "t">>, s_defaultHistory, <<"sup2">>>>),
      Line(<<<<"/", "s", "e", "t">>, s_defaultHistory, <<"-", "5">>>>),
      Line(<<<<"/", "s", "e", "t">>, s_defaultHistory>>),
      Line(<<s_contacts, <<"0">>>>),
      Line(<<s_contacts, <<"1">>>>),
      Line(<<s_contacts, <<"2">>>>),
      Line(<<s_contacts, s_abc>>),
      Line(<<s_contacts, s_abc, <<"0">>>>),
      Line(<<s_contacts, s_abc, <<"1">>>>),
      Line(<<s_contacts, <<"2">>, s_abc>>),
      Line(<<s_contacts, s_all>>),
      Line(<<s_contacts, <<"sup2">>>>),
      Line(<<s_chats, s_group>>),
      Line(<<s_chats, s_users, <<"1">>>>),
      Line(<<s_chats, <<"1">>>>),
      Line(<<s_reply, <<"9">>>>),
      Line(<<s_reply, <<"-", "1">>>>),
      s_long,
      Line(<<<<"/", "r">>, <<"B", "O", "B">>>>),
      Line(<<<<"/", "r">>, <<"o", "b">>>>),
      Line(<<<<"/", "r">>, <<"@", "b", "b">>>>) }

AllLines == InputLines \cup MoreLines

\* msg.strip(), msg.strip().split() and the branch taken, for each input line
clean_of == [msg \in AllLines |-> strip(msg)]
cmd_of == [msg \in AllLines |-> split(strip(msg))]
branch_of == [msg \in AllLines |-> Branch(strip(msg))]

\* Answers typed at the /delete confirmation prompt
ConfirmAnswers == { <<"y">>, <<"Y">>, <<"n">>, <<>> }

----------------------------------------------------------------------------
(* Initial state: main() up to the first prompt *)

NoCall ==
    [op |-> "none", peer |-> 0, text |-> <<>>, reply_to |-> 0, ids |-> <<>>, limit |-> 0,
     answered |-> "", failed |-> FALSE]

NoLocals ==
    [limit_count |-> 0, reply_to |-> 0, msgs_to_delete |-> <<>>, valid_indices |-> <<>>,
     target_input |-> <<>>, filter_type |-> "", target_count |-> 0, confirm |-> <<>>,
     sort_alpha |-> FALSE, user_dialogs |-> <<>>]

DEFAULT_SETTINGS == [defaultHistory |-> 0, autoClearMsgLog |-> FALSE]

InitAt(first_id) ==
    /\ current_chat = None
    /\ chat_list_cache = <<>>
    /\ user_settings = DEFAULT_SETTINGS
    /\ pc = "prompt"
    /\ locals = NoLocals
    /\ store = [p \in PeerIds |-> <<>>]
    /\ updates = <<>>
    /\ next_msg_id = first_id
    /\ today = 1
    /\ msg_clean = <<>>
    /\ out = {}
    /\ call = NoCall

Init == InitAt(1)

\* The dispatcher reads msg at the main prompt and takes the given branch
Reads(msg, branch) ==
    /\ pc = "prompt"
    /\ branch_of[msg] = branch

\* An exception that nothing catches leaves main(): the process ends
Raise(line) ==
    /\ pc' = "crashed"
    /\ msg_clean' = line
    /\ locals' = NoLocals
    /\ call' = NoCall
    /\ out' = {"traceback"}

\* Back to the prompt, having printed the given lines
Continue(printed) ==
    /\ pc' = "prompt"
    /\ msg_clean' = <<>>
    /\ locals' = NoLocals
    /\ call' = NoCall
    /\ out' = printed

\* Back to the prompt from a backend request that returned (ok) or raised into
\* the except clause around it, having printed the given lines
Returned(ok, printed) ==
    /\ pc' = "prompt"
    /\ msg_clean' = <<>>
    /\ locals' = NoLocals
    /\ call' = [NoCall EXCEPT !.answered = pc, !.failed = ~ok]
    /\ out' = printed

Backend == <<store, updates, next_msg_id, today>>

----------------------------------------------------------------------------
(* fetch_and_render_history *)

\* A loader that would ask the backend whatever the count
BeginHistory_any_count(c, limit_count, printed) ==
    IF c = None
    THEN Continue(printed)
    ELSE /\ pc' = "fetch"
         /\ msg_clean' = <<>>
         /\ locals' = [NoLocals EXCEPT !.limit_count = limit_count]
         /\ call' = [NoCall EXCEPT !.op = "get_messages", !.peer = c[1].entity.id,
                                   !.limit = limit_count]
         /\ out' = printed \cup {"system"}

\* fetch_and_render_history(limit_count) up to its await, for the session c
\* (<<>> when there is none), after the caller printed the given lines
BeginHistory(c, limit_count, printed) ==
    IF c = None \/ limit_count <= 0
    THEN Continue(printed)
    ELSE /\ pc' = "fetch"
         /\ msg_clean' = <<>>
         /\ locals' = [NoLocals EXCEPT !.limit_count = limit_count]
         /\ call' = [NoCall EXCEPT !.op = "get_messages", !.peer = c[1].entity.id,
                                   !.limit = limit_count]
         /\ out' = printed \cup {"system"}

\* A render that would clear the table and go on counting where it was
RenderHistory_keeps_next_index(c, history_msgs) ==
    LET chronological_msgs == Reverse(history_msgs)
        reset == [c EXCEPT !.message_index_map = <<>>]
        indexed == IndexAll(reset, chronological_msgs)
    IN  IF chronological_msgs = <<>> THEN indexed
        ELSE [indexed EXCEPT !.last_message_date =
                                 chronological_msgs[Len(chronological_msgs)].date]

\* A render that would index the messages in the order the backend returns
\* them
RenderHistory_newest_first(c, history_msgs) ==
    LET reset == [c EXCEPT !.message_index_map = <<>>, !.next_index = 1]
        indexed == IndexAll(reset, history_msgs)
    IN  IF history_msgs = <<>> THEN indexed
        ELSE [indexed EXCEPT !.last_message_date = history_msgs[1].date]

\* A render that would add the messages to the table it finds
RenderHistory_appends(c, history_msgs) ==
    LET chronological_msgs == Reverse(history_msgs)
        indexed == IndexAll(c, chronological_msgs)
    IN  IF chronological_msgs = <<>> THEN indexed
        ELSE [indexed EXCEPT !.last_message_date =
                                 chronological_msgs[Len(chronological_msgs)].date]

\* A render that would drop the pending reply with the table
RenderHistory_clears_reply(c, history_msgs) ==
    LET chronological_msgs == Reverse(history_msgs)
        reset == [c EXCEPT !.message_index_map = <<>>, !.next_index = 1,
                           !.reply_to_msg_id = 0, !.reply_snippet = <<>>]
        indexed == IndexAll(reset, chronological_msgs)
    IN  IF chronological_msgs = <<>> THEN indexed
        ELSE [indexed EXCEPT !.last_message_date =
                                 chronological_msgs[Len(chronological_msgs)].date]

\* The body after get_messages returned history_msgs
RenderHistory(c, history_msgs) ==
    LET chronological_msgs == Reverse(history_msgs)
        reset == [c EXCEPT !.message_index_map = <<>>, !.next_index = 1]
        indexed == IndexAll(reset, chronological_msgs)
    IN  IF chronological_msgs = <<>> THEN indexed
        ELSE [indexed EXCEPT !.last_message_date =
                                 chronological_msgs[Len(chronological_msgs)].date]

\* The styles of the lines that render the given messages
MessageLines(messages) ==
    {IF messages[i].out THEN "sent" ELSE "plain" : i \in DOMAIN messages}
    \cup (IF messages = <<>> THEN {} ELSE {"date"})

\* A load that would reset the index before it has the messages
FetchReturn_resets_first(ok) ==
    /\ pc = "fetch"
    /\ IF ok
       THEN /\ current_chat' =
                 <<RenderHistory(chat, get_messages(chat.entity.id, locals.limit_count))>>
            /\ Returned(ok, {"system"}
                        \cup MessageLines(get_messages(chat.entity.id, locals.limit_count)))
       ELSE /\ current_chat' = <<[chat EXCEPT !.message_index_map = <<>>,
                                               !.next_index = 1]>>
            /\ Returned(ok, {"error"})
    /\ UNCHANGED <<chat_list_cache, user_settings, Backend>>

\* get_messages returns, or raises
FetchReturn(ok) ==
    /\ pc = "fetch"
    /\ IF ok
       THEN /\ current_chat' =
                 <<RenderHistory(chat, get_messages(chat.entity.id, locals.limit_count))>>
            /\ Returned(ok, {"system"}
                        \cup MessageLines(get_messages(chat.entity.id, locals.limit_count)))
       ELSE /\ current_chat' = current_chat
            /\ Returned(ok, {"error"})
    /\ UNCHANGED <<chat_list_cache, user_settings, Backend>>

\* /history [n], /h [n]
CmdHistory(msg) ==
    /\ Reads(msg, "history")
    /\ LET cmd == cmd_of[msg]
       IN  IF Len(cmd) > 1 /\ isdigit(cmd[2]) /\ ~int_ok(cmd[2])
           THEN Raise(clean_of[msg])
           ELSE LET limit == IF Len(cmd) > 1 /\ isdigit(cmd[2])
                             THEN (IF int(cmd[2]) < HistoryCap THEN int(cmd[2])
                                   ELSE HistoryCap)
                             ELSE DefaultHistoryLimit
                IN  IF current_chat # None
                    THEN BeginHistory(current_chat, limit, {})
                    ELSE Continue({"error"})
    /\ UNCHANGED <<current_chat, chat_list_cache, user_settings, Backend>>

----------------------------------------------------------------------------
(* The NewMessage listener and the backend that feeds it *)

\* A separator that would be printed and not remembered
print_date_separator_forgets(c, message_date) == c

\* print_date_separator(message_date)
print_date_separator(c, message_date) ==
    IF c.last_message_date # message_date
    THEN [c EXCEPT !.last_message_date = message_date]
    ELSE c

\* A listener that would take every event for the open chat's
Handler_takes_all ==
    /\ pc \notin {"exited", "crashed", "disconnected"}
    /\ updates # <<>>
    /\ LET event == Head(updates)
       IN  IF current_chat = None
           THEN /\ current_chat' = current_chat
                /\ out' = {}
           ELSE /\ current_chat' =
                     <<IndexMessage(print_date_separator(chat, event.date), event)>>
                /\ out' = {IF event.out THEN "sent" ELSE "plain"}
                          \cup (IF chat.last_message_date # event.date
                                THEN {"date"} ELSE {})
    /\ updates' = Tail(updates)
    /\ call' = NoCall
    /\ UNCHANGED <<chat_list_cache, user_settings, pc, locals, store, next_msg_id,
                   today, msg_clean>>

\* handler(event): runs to completion, it awaits nothing
Handler ==
    /\ pc \notin {"exited", "crashed", "disconnected"}
    /\ updates # <<>>
    /\ LET event == Head(updates)
       IN  IF current_chat = None \/ event.chat_id # chat.entity.id
           THEN /\ current_chat' = current_chat
                /\ out' = {}
           ELSE /\ current_chat' =
                     <<IndexMessage(print_date_separator(chat, event.date), event)>>
                /\ out' = {IF event.out THEN "sent" ELSE "plain"}
                          \cup (IF chat.last_message_date # event.date
                                THEN {"date"} ELSE {})
    /\ updates' = Tail(updates)
    /\ call' = NoCall
    /\ UNCHANGED <<chat_list_cache, user_settings, pc, locals, store, next_msg_id,
                   today, msg_clean>>

\* A message is posted in a conversation by the peer, or by the user's other
\* device (is_out); the backend stores it and pushes the event
Arrive(peer, is_out, text) ==
    /\ pc \notin {"exited", "crashed", "disconnected"}
    /\ next_msg_id <= MaxMsgs
    /\ Len(updates) < MaxQueue
    /\ LET message == Message(next_msg_id, peer, is_out, today, text)
       IN  /\ store' = [store EXCEPT ![peer] = Append(@, message)]
           /\ updates' = Append(updates, message)
    /\ next_msg_id' = next_msg_id + 1
    /\ out' = {}
    /\ call' = NoCall
    /\ UNCHANGED <<current_chat, chat_list_cache, user_settings, pc, locals, today,
                   msg_clean>>

\* Midnight passes
Tick ==
    /\ pc \notin {"exited", "crashed", "disconnected"}
    /\ today < MaxDay
    /\ today' = today + 1
    /\ out' = {}
    /\ call' = NoCall
    /\ UNCHANGED <<current_chat, chat_list_cache, user_settings, pc, locals, store,
                   updates, next_msg_id, msg_clean>>

----------------------------------------------------------------------------
(* The default action: send the line to the current peer *)

CmdSend(msg) ==
    /\ Reads(msg, "send")
    /\ IF current_chat # None
       THEN /\ current_chat' = <<print_date_separator(chat, today)>>
            /\ pc' = "send"
            /\ msg_clean' = clean_of[msg]
            /\ locals' = [NoLocals EXCEPT !.reply_to = chat.reply_to_msg_id]
            /\ call' = [NoCall EXCEPT !.op = "send_message", !.peer = chat.entity.id,
                                      !.text = clean_of[msg],
                                      !.reply_to = chat.reply_to_msg_id]
            /\ out' = IF chat.last_message_date # today THEN {"date"} ELSE {}
       ELSE /\ current_chat' = current_chat
            /\ Continue({"error"})
    /\ UNCHANGED <<chat_list_cache, user_settings, Backend>>

\* A send that would leave the reply target in place
AfterSend_keeps_reply(c, sent_msg, reply_to) ==
    IndexMessage(c, sent_msg)

\* What the dispatcher does with the message send_message returned
AfterSend(c, sent_msg, reply_to) ==
    LET indexed == IndexMessage(c, sent_msg)
    IN  IF reply_to # 0 THEN ClearReplyTarget(indexed) ELSE indexed

\* send_message returns the sent message, or raises
SendReturn(ok) ==
    /\ pc = "send"
    /\ IF ok
       THEN /\ next_msg_id <= MaxMsgs
            /\ LET sent_msg == Message(next_msg_id, chat.entity.id, TRUE, today, msg_clean)
               IN  /\ store' = [store EXCEPT ![chat.entity.id] = Append(@, sent_msg)]
                   /\ current_chat' = <<AfterSend(chat, sent_msg, locals.reply_to)>>
            /\ next_msg_id' = next_msg_id + 1
            /\ Returned(ok, {"sent"})
       ELSE /\ UNCHANGED <<store, next_msg_id, current_chat>>
            /\ Returned(ok, {"error"})
    /\ UNCHANGED <<chat_list_cache, user_settings, updates, today>>

\* send_message returns the sent message and the backend also pushes the
\* NewMessage event of that message to the listener, which takes outgoing
\* events as well (events.NewMessage() has no filter)
SendReturnEchoed ==
    /\ pc = "send"
    /\ next_msg_id <= MaxMsgs
    /\ Len(updates) < MaxQueue
    /\ LET sent_msg == Message(next_msg_id, chat.entity.id, TRUE, today, msg_clean)
       IN  /\ store' = [store EXCEPT ![chat.entity.id] = Append(@, sent_msg)]
           /\ updates' = Append(updates, sent_msg)
           /\ current_chat' = <<AfterSend(chat, sent_msg, locals.reply_to)>>
    /\ next_msg_id' = next_msg_id + 1
    /\ Returned(TRUE, {"sent"})
    /\ UNCHANGED <<chat_list_cache, user_settings, today>>

----------------------------------------------------------------------------
(* Commands that end the loop, and commands without a backend request *)

\* an empty line: continue
CmdEmpty(msg) ==
    /\ Reads(msg, "empty")
    /\ Continue({})
    /\ UNCHANGED <<current_chat, chat_list_cache, user_settings, Backend>>

\* /exit, --exit: break
CmdExit(msg) ==
    /\ Reads(msg, "exit")
    /\ pc' = "exited"
    /\ msg_clean' = <<>>
    /\ locals' = NoLocals
    /\ call' = NoCall
    /\ out' = {}
    /\ UNCHANGED <<current_chat, chat_list_cache, user_settings, Backend>>

\* An interrupt after which the loop would go round again
Interrupt_resumes ==
    /\ pc \in {"prompt", "confirm", "name_prompt"}
    /\ pc' = "prompt"
    /\ msg_clean' = <<>>
    /\ call' = NoCall
    /\ out' = {}
    /\ UNCHANGED <<current_chat, chat_list_cache, user_settings, locals, Backend>>

\* KeyboardInterrupt or EOFError at a prompt_async: break
Interrupt ==
    /\ pc \in {"prompt", "confirm", "name_prompt"}
    /\ pc' = "exited"
    /\ msg_clean' = <<>>
    /\ call' = NoCall
    /\ out' = {}
    /\ UNCHANGED <<current_chat, chat_list_cache, user_settings, locals, Backend>>

\* await client.disconnect()
Disconnect ==
    /\ pc = "exited"
    /\ pc' = "disconnected"
    /\ call' = [NoCall EXCEPT !.op = "disconnect"]
    /\ out' = {}
    /\ UNCHANGED <<current_chat, chat_list_cache, user_settings, locals, msg_clean,
                   Backend>>

\* /help, /h
CmdHelp(msg) ==
    /\ Reads(msg, "help")
    /\ Continue({"system"})
    /\ UNCHANGED <<current_chat, chat_list_cache, user_settings, Backend>>

\* bool(value) of the value the settings command stores for a key other than
\* defaultHistory
Truthy(value) ==
    IF isdigit(value) THEN int(value) # 0
    ELSE IF lower(value) = s_true THEN TRUE
    ELSE IF lower(value) = s_false THEN FALSE
    ELSE TRUE

\* /settings, /set: of the keys a user may store, defaultHistory and
\* autoClearMsgLog are the ones the program reads
CmdSettings(msg) ==
    /\ Reads(msg, "settings")
    /\ LET args == Tail(cmd_of[msg])
       IN  IF args = <<>>
           THEN Continue({"info", "plain", "system"}) /\ UNCHANGED user_settings
           ELSE IF lower(args[1]) = s_helpword
           THEN Continue({"info", "plain"}) /\ UNCHANGED user_settings
           ELSE IF Len(args) >= 2
           THEN LET key == args[1]
                    value == args[2]
                IN  IF key = s_defaultHistory
                    THEN IF isdigit(value) /\ ~int_ok(value)
                         THEN Raise(clean_of[msg]) /\ UNCHANGED user_settings
                         ELSE IF isdigit(value) /\ 0 <= int(value)
                                                /\ int(value) <= MaxDefaultHistory
                         THEN /\ user_settings' =
                                   [user_settings EXCEPT !.defaultHistory = int(value)]
                              /\ Continue({"system"})
                         ELSE Continue({"error"}) /\ UNCHANGED user_settings
                    ELSE IF isdigit(value) /\ ~int_ok(value)
                         THEN Continue({"error"}) /\ UNCHANGED user_settings
                         ELSE /\ user_settings' =
                                   IF key = s_autoClearMsgLog
                                   THEN [user_settings EXCEPT
                                            !.autoClearMsgLog = Truthy(value)]
                                   ELSE user_settings
                              /\ Continue(IF html_raises(key) \/ html_raises(value)
                                          THEN {"error"} ELSE {"system"})
           ELSE Continue({"error"}) /\ UNCHANGED user_settings
    /\ UNCHANGED <<current_chat, chat_list_cache, Backend>>

\* /r off, //, /out
CmdClose(msg) ==
    /\ Reads(msg, "close")
    /\ IF current_chat # None
       THEN current_chat' = None /\ Continue({"system"})
       ELSE current_chat' = current_chat /\ Continue({"system"})
    /\ UNCHANGED <<chat_list_cache, user_settings, Backend>>

----------------------------------------------------------------------------
(* /status *)

CmdStatus(msg) ==
    /\ Reads(msg, "status")
    /\ IF current_chat # None
       THEN /\ pc' = "status"
            /\ msg_clean' = <<>>
            /\ locals' = NoLocals
            /\ call' = [NoCall EXCEPT !.op = "get_entity", !.peer = chat.entity.id]
            /\ out' = {}
       ELSE Continue({"error"})
    /\ UNCHANGED <<current_chat, chat_list_cache, user_settings, Backend>>

StatusReturn(ok) ==
    /\ pc = "status"
    /\ Returned(ok, IF ok THEN {"info"} ELSE {"error"})
    /\ UNCHANGED <<current_chat, chat_list_cache, user_settings, Backend>>

----------------------------------------------------------------------------
(* /reply *)

CmdReply(msg) ==
    /\ Reads(msg, "reply")
    /\ LET cmd == cmd_of[msg]
       IN  IF current_chat = None
           THEN current_chat' = current_chat /\ Continue({"error"})
           ELSE IF contains(clean_of[msg], s_cancel)
           THEN current_chat' = <<ClearReplyTarget(chat)>> /\ Continue({"system"})
           ELSE IF chat.reply_to_msg_id # 0 /\ Len(cmd) = 1
           THEN current_chat' = <<ClearReplyTarget(chat)>> /\ Continue({"system"})
           ELSE IF Len(cmd) > 1 /\ isdigit(cmd[2])
           THEN IF ~int_ok(cmd[2])
                THEN current_chat' = current_chat /\ Raise(clean_of[msg])
                ELSE IF int(cmd[2]) \in DOMAIN chat.message_index_map
                THEN /\ current_chat' =
                          <<SetReplyTarget(chat, chat.message_index_map[int(cmd[2])])>>
                     /\ Continue({})
                ELSE current_chat' = current_chat /\ Continue({"error"})
           ELSE /\ current_chat' = current_chat
                /\ pc' = "reply_scan"
                /\ msg_clean' = clean_of[msg]
                /\ locals' = NoLocals
                /\ call' = [NoCall EXCEPT !.op = "iter_messages", !.peer = chat.entity.id,
                                          !.limit = ReplyLookback]
                /\ out' = {"system"}
    /\ UNCHANGED <<chat_list_cache, user_settings, Backend>>

\* A scan that would go on to the oldest message that is not out
FirstInbound_oldest(messages) ==
    LET inbound == {i \in DOMAIN messages : ~messages[i].out}
    IN  IF inbound = {} THEN <<>>
        ELSE <<messages[CHOOSE i \in inbound : \A j \in inbound : i >= j]>>

\* The first message of the scan that is not out, as <<message>>, or <<>>
FirstInbound(messages) ==
    LET inbound == {i \in DOMAIN messages : ~messages[i].out}
    IN  IF inbound = {} THEN <<>>
        ELSE <<messages[CHOOSE i \in inbound : \A j \in inbound : i <= j]>>

\* iter_messages yields the messages, or raises: nothing catches that
ReplyScanReturn(ok) ==
    /\ pc = "reply_scan"
    /\ IF ok
       THEN LET target_msg == FirstInbound(get_messages(chat.entity.id, ReplyLookback))
            IN  IF target_msg # <<>>
                THEN /\ current_chat' = <<SetReplyTarget(chat, target_msg[1])>>
                     /\ Returned(ok, {})
                ELSE /\ current_chat' = current_chat
                     /\ Returned(ok, IF Len(split(msg_clean)) = 1 THEN {"error"}
                                 ELSE {})
       ELSE current_chat' = current_chat /\ Raise(msg_clean)
    /\ UNCHANGED <<chat_list_cache, user_settings, Backend>>

----------------------------------------------------------------------------
(* /delete *)

\* The loop over cmd[1:]: the messages and indices collected, the warnings
\* printed, and whether int() or HTML() raised on the way
RECURSIVE CollectDelete(_, _, _)
CollectDelete(args, index_map, acc) ==
    IF args = <<>> \/ acc.raised THEN acc
    ELSE LET arg == Head(args)
         IN  IF isdigit(arg)
             THEN IF ~int_ok(arg)
                  THEN [acc EXCEPT !.raised = TRUE]
                  ELSE IF int(arg) \in DOMAIN index_map
                  THEN CollectDelete(Tail(args), index_map,
                           [acc EXCEPT !.msgs_to_delete = Append(@, index_map[int(arg)]),
                                       !.valid_indices = Append(@, int(arg))])
                  ELSE CollectDelete(Tail(args), index_map,
                           [acc EXCEPT !.printed = @ \cup {"error"}])
             ELSE IF html_raises(arg)
                  THEN [acc EXCEPT !.raised = TRUE]
                  ELSE CollectDelete(Tail(args), index_map,
                           [acc EXCEPT !.printed = @ \cup {"error"}])

MessageIds(messages) == [i \in DOMAIN messages |-> messages[i].id]

CmdDelete(msg) ==
    /\ Reads(msg, "delete")
    /\ LET cmd == cmd_of[msg]
       IN  IF current_chat = None THEN Continue({"error"})
           ELSE IF Len(cmd) < 2 THEN Continue({"error"})
           ELSE LET got == CollectDelete(Tail(cmd), chat.message_index_map,
                               [raised |-> FALSE, msgs_to_delete |-> <<>>,
                                valid_indices |-> <<>>, printed |-> {}])
                    contains_others_messages ==
                        \E i \in DOMAIN got.msgs_to_delete : ~got.msgs_to_delete[i].out
                IN  IF got.raised THEN Raise(clean_of[msg])
                    ELSE IF got.msgs_to_delete = <<>>
                    THEN Continue(got.printed \cup {"error"})
                    ELSE /\ pc' = "confirm"
                         /\ msg_clean' = <<>>
                         /\ locals' = [NoLocals EXCEPT
                                          !.msgs_to_delete = got.msgs_to_delete,
                                          !.valid_indices = got.valid_indices]
                         /\ call' = NoCall
                         /\ out' = got.printed
                                   \cup (IF contains_others_messages
                                         THEN {"error"} ELSE {})
                                   \cup {"system"}
    /\ UNCHANGED <<current_chat, chat_list_cache, user_settings, Backend>>

\* A prompt that would take any answer for a yes
DeleteConfirm_any_answer(confirm) ==
    /\ pc = "confirm"
    /\ pc' = "delete"
    /\ msg_clean' = <<>>
    /\ locals' = [locals EXCEPT !.confirm = confirm]
    /\ call' = [NoCall EXCEPT !.op = "delete_messages", !.peer = chat.entity.id,
                              !.ids = MessageIds(locals.msgs_to_delete)]
    /\ out' = {}
    /\ UNCHANGED <<current_chat, chat_list_cache, user_settings, Backend>>

\* The answer to "Type 'y' to confirm"
DeleteConfirm(confirm) ==
    /\ pc = "confirm"
    /\ IF lower(confirm) = s_y
       THEN /\ pc' = "delete"
            /\ msg_clean' = <<>>
            /\ locals' = [locals EXCEPT !.confirm = confirm]
            /\ call' = [NoCall EXCEPT !.op = "delete_messages", !.peer = chat.entity.id,
                                      !.ids = MessageIds(locals.msgs_to_delete)]
            /\ out' = {}
       ELSE Continue({"system"})
    /\ UNCHANGED <<current_chat, chat_list_cache, user_settings, Backend>>

\* A deletion that would take the deleted messages out of the session's table
DeleteReturn_forgets(ok) ==
    /\ pc = "delete"
    /\ IF ok
       THEN /\ store' = [store EXCEPT ![chat.entity.id] =
                            SelectSeq(@, LAMBDA m :
                                m.id \notin Range(MessageIds(locals.msgs_to_delete)))]
            /\ current_chat' =
                   <<[chat EXCEPT !.message_index_map =
                          [i \in {j \in DOMAIN @ :
                                     @[j].id \notin
                                         Range(MessageIds(locals.msgs_to_delete))}
                             |-> @[i]]]>>
            /\ Returned(ok, {"system"})
       ELSE /\ UNCHANGED <<store, current_chat>>
            /\ Returned(ok, {"error"})
    /\ UNCHANGED <<chat_list_cache, user_settings, updates, next_msg_id, today>>

\* delete_messages(entity, msg_ids, revoke=True) returns, or raises
DeleteReturn(ok) ==
    /\ pc = "delete"
    /\ IF ok
       THEN /\ store' = [store EXCEPT ![chat.entity.id] =
                            SelectSeq(@, LAMBDA m :
                                m.id \notin Range(MessageIds(locals.msgs_to_delete)))]
            /\ Returned(ok, {"system"})
       ELSE /\ store' = store
            /\ Returned(ok, {"error"})
    /\ UNCHANGED <<current_chat, chat_list_cache, user_settings, updates,
                   next_msg_id, today>>

----------------------------------------------------------------------------
(* /contacts, /unread, /chats *)

RemoveFirst(args, x) ==
    LET i == CHOOSE k \in DOMAIN args : args[k] = x /\ \A j \in 1..(k - 1) : args[j] # x
    IN  SubSeq(args, 1, i - 1) \o SubSeq(args, i + 1, Len(args))

\* sort_alpha and target_count from the arguments of /contacts, and whether
\* int() raised
ContactsArgs(args0) ==
    LET sort_alpha == s_abc \in Range(args0)
        args == IF sort_alpha THEN RemoveFirst(args0, s_abc) ELSE args0
        target_count == IF sort_alpha THEN 25 ELSE 10
    IN  IF args = <<>>
        THEN [raised |-> FALSE, sort_alpha |-> sort_alpha, target_count |-> target_count]
        ELSE IF args[1] = s_all
        THEN [raised |-> FALSE, sort_alpha |-> sort_alpha, target_count |-> 999999]
        ELSE IF isdigit(args[1])
        THEN IF int_ok(args[1])
             THEN [raised |-> FALSE, sort_alpha |-> sort_alpha,
                   target_count |-> int(args[1])]
             ELSE [raised |-> TRUE, sort_alpha |-> sort_alpha,
                   target_count |-> target_count]
        ELSE [raised |-> FALSE, sort_alpha |-> sort_alpha, target_count |-> target_count]

\* /contacts [abc] [n|all]
CmdContacts(msg) ==
    /\ Reads(msg, "contacts")
    /\ LET got == ContactsArgs(Tail(cmd_of[msg]))
       IN  IF got.raised
           THEN Raise(clean_of[msg])
           ELSE /\ pc' = "contacts"
                /\ msg_clean' = <<>>
                /\ locals' = [NoLocals EXCEPT !.sort_alpha = got.sort_alpha,
                                              !.target_count = got.target_count]
                /\ call' = [NoCall EXCEPT !.op = "iter_dialogs"]
                /\ out' = {"system"}
    /\ UNCHANGED <<current_chat, chat_list_cache, user_settings, Backend>>

\* The async for over the dialogs: the entities appended, and whether the
\* loop broke on the count
RECURSIVE ContactsLoop(_, _, _, _)
ContactsLoop(dialogs, sort_alpha, target_count, acc) ==
    IF dialogs = <<>> THEN acc
    ELSE IF Head(dialogs).kind = "User" /\ ~Head(dialogs).bot
    THEN LET user_dialogs == Append(acc.user_dialogs, Head(dialogs))
         IN  IF ~sort_alpha /\ Len(user_dialogs) >= target_count
             THEN [broke |-> TRUE, user_dialogs |-> user_dialogs]
             ELSE ContactsLoop(Tail(dialogs), sort_alpha, target_count,
                               [broke |-> FALSE, user_dialogs |-> user_dialogs])
    ELSE ContactsLoop(Tail(dialogs), sort_alpha, target_count, acc)

\* a < b for two lowercased names, letter by letter
RECURSIVE name_less(_, _)
name_less(a, b) ==
    IF b = <<>> THEN FALSE
    ELSE IF a = <<>> THEN TRUE
    ELSE IF Head(a) = Head(b) THEN name_less(Tail(a), Tail(b))
    ELSE LET rank(c) == CHOOSE k \in DOMAIN LowerCase : LowerCase[k] = c
         IN  rank(Head(a)) < rank(Head(b))

\* list.sort(key=lambda x: get_display_name(x).lower()): a stable sort
RECURSIVE sort_by_name(_)
sort_by_name(entities) ==
    IF entities = <<>> THEN <<>>
    ELSE LET sorted == sort_by_name(SubSeq(entities, 1, Len(entities) - 1))
             last == entities[Len(entities)]
             key(e) == lower(get_display_name(e))
             before == {i \in DOMAIN sorted : ~name_less(key(last), key(sorted[i]))}
             n == Cardinality(before)
         IN  SubSeq(sorted, 1, n) \o <<last>> \o SubSeq(sorted, n + 1, Len(sorted))

\* The entities /contacts prints when iter_dialogs yields the given dialogs
ContactsListed(dialogs, sort_alpha, target_count) ==
    LET found == ContactsLoop(dialogs, sort_alpha, target_count,
                              [broke |-> FALSE, user_dialogs |-> <<>>]).user_dialogs
    IN  IF sort_alpha
        THEN LET sorted == sort_by_name(found)
             IN  IF target_count < Len(sorted) THEN SubSeq(sorted, 1, target_count)
                 ELSE sorted
        ELSE found

\* iter_dialogs of /contacts yields the dialogs and ends, or raises after
\* them; user_dialogs is left as the branch leaves it
ContactsReturn(dialogs, ok) ==
    /\ pc = "contacts"
    /\ LET looped == ContactsLoop(dialogs, locals.sort_alpha, locals.target_count,
                                  [broke |-> FALSE, user_dialogs |-> <<>>])
       IN  /\ ~ok => ~looped.broke
           /\ pc' = "prompt"
           /\ msg_clean' = <<>>
           /\ locals' = [NoLocals EXCEPT !.user_dialogs =
                            IF ok THEN ContactsListed(dialogs, locals.sort_alpha,
                                                      locals.target_count)
                            ELSE looped.user_dialogs]
           /\ call' = [NoCall EXCEPT !.answered = pc, !.failed = ~ok]
           /\ out' = IF ok THEN {"info"} \cup (IF ContactsListed(dialogs,
                                                   locals.sort_alpha,
                                                   locals.target_count) = <<>>
                                               THEN {} ELSE {"plain"})
                     ELSE {"error"}
    /\ UNCHANGED <<current_chat, chat_list_cache, user_settings, Backend>>

CmdUnread(msg) ==
    /\ Reads(msg, "unread")
    /\ pc' = "listing"
    /\ msg_clean' = <<>>
    /\ locals' = NoLocals
    /\ call' = [NoCall EXCEPT !.op = "iter_dialogs", !.limit = 100]
    /\ out' = {"system"}
    /\ UNCHANGED <<current_chat, chat_list_cache, user_settings, Backend>>

\* iter_dialogs of /unread ends, or raises
ListingReturn(ok) ==
    /\ pc = "listing"
    /\ Returned(ok, IF ok THEN {"info", "plain"} ELSE {"error"})
    /\ UNCHANGED <<current_chat, chat_list_cache, user_settings, Backend>>

\* The loop over the arguments of /chats: target_count and filter_type
RECURSIVE ChatsArgs(_, _)
ChatsArgs(args, acc) ==
    IF args = <<>> \/ acc.raised THEN acc
    ELSE LET arg == Head(args)
         IN  IF isdigit(arg)
             THEN IF ~int_ok(arg) THEN [acc EXCEPT !.raised = TRUE]
                  ELSE ChatsArgs(Tail(args), [acc EXCEPT !.target_count = int(arg)])
             ELSE IF lower(arg) \in {s_users, s_user}
             THEN ChatsArgs(Tail(args), [acc EXCEPT !.filter_type = "user"])
             ELSE IF lower(arg) \in {s_groups, s_group}
             THEN ChatsArgs(Tail(args), [acc EXCEPT !.filter_type = "group"])
             ELSE IF lower(arg) \in {s_channels, s_channel}
             THEN ChatsArgs(Tail(args), [acc EXCEPT !.filter_type = "channel"])
             ELSE ChatsArgs(Tail(args), acc)

CmdChats(msg) ==
    /\ Reads(msg, "chats")
    /\ LET got == ChatsArgs(Tail(cmd_of[msg]),
                      [raised |-> FALSE, target_count |-> 10, filter_type |-> ""])
       IN  IF got.raised
           THEN Raise(clean_of[msg]) /\ UNCHANGED chat_list_cache
           ELSE /\ chat_list_cache' = <<>>
                /\ pc' = "chats"
                /\ msg_clean' = <<>>
                /\ locals' = [NoLocals EXCEPT !.target_count = got.target_count,
                                              !.filter_type = got.filter_type]
                /\ call' = [NoCall EXCEPT !.op = "iter_dialogs"]
                /\ out' = {"system"}
    /\ UNCHANGED <<current_chat, user_settings, Backend>>

\* dialog.is_user / is_group / is_channel against filter_type
PassesFilter(entity, filter_type) ==
    \/ filter_type = ""
    \/ filter_type = "user" /\ entity.kind = "User"
    \/ filter_type = "group" /\ entity.kind = "Group"
    \/ filter_type = "channel" /\ entity.kind = "Channel"

\* A loop that would take the dialogs whatever their type
ListChats_unfiltered(dialogs, filter_type, target_count, acc) ==
    IF Len(dialogs) <= target_count \/ dialogs = <<>> THEN dialogs
    ELSE SubSeq(dialogs, 1, IF target_count < 1 THEN 1 ELSE target_count)

\* The entities the loop appends from the given dialogs: those that pass the
\* filter, until count_found >= target_count
RECURSIVE ListChats(_, _, _, _)
ListChats(dialogs, filter_type, target_count, acc) ==
    IF dialogs = <<>> THEN acc
    ELSE IF ~PassesFilter(Head(dialogs), filter_type)
    THEN ListChats(Tail(dialogs), filter_type, target_count, acc)
    ELSE IF Len(acc) + 1 >= target_count THEN Append(acc, Head(dialogs))
    ELSE ListChats(Tail(dialogs), filter_type, target_count, Append(acc, Head(dialogs)))

\* iter_dialogs of /chats yields n dialogs and then ends, or raises
ChatsReturn(n, ok) ==
    /\ pc = "chats"
    /\ ok => n = Len(Dialogs)
    /\ chat_list_cache' =
           ListChats(SubSeq(Dialogs, 1, n), locals.filter_type, locals.target_count, <<>>)
    /\ Returned(ok, {"info"}
                    \cup (IF chat_list_cache' # <<>> THEN {"plain"} ELSE {})
                    \cup (IF ok THEN {"system"} ELSE {"error"}))
    /\ UNCHANGED <<current_chat, user_settings, Backend>>

----------------------------------------------------------------------------
(* Opening a chat: /c [n] and /r [name] *)

\* current_chat = ChatSession(entity), the "Today" line, and the presence
\* request for a User; otherwise straight on to the automatic history load
OpenChat(entity) ==
    LET c == [ChatSession(entity) EXCEPT !.last_message_date = today]
    IN  /\ current_chat' = <<c>>
        /\ IF entity.kind = "User"
           THEN /\ pc' = "open_status"
                /\ msg_clean' = <<>>
                /\ locals' = NoLocals
                /\ call' = [NoCall EXCEPT !.op = "get_entity", !.peer = entity.id]
                /\ out' = {"date"}
           ELSE BeginHistory(<<c>>, user_settings.defaultHistory, {"date", "system"})

\* get_entity of the opening returns or raises (except: pass); then the
\* automatic history load
OpenStatusReturn(ok) ==
    /\ pc = "open_status"
    /\ BeginHistory(current_chat, user_settings.defaultHistory, {"system"})
    /\ UNCHANGED <<current_chat, chat_list_cache, user_settings, Backend>>

\* /c [n]
CmdJump(msg) ==
    /\ Reads(msg, "jump")
    /\ LET cmd == cmd_of[msg]
       IN  IF ~int_ok(cmd[2])
           THEN current_chat' = current_chat /\ Continue({"error"})
           ELSE LET idx == int(cmd[2]) - 1
                IN  IF 0 <= idx /\ idx < Len(chat_list_cache)
                    THEN OpenChat(chat_list_cache[idx + 1])
                    ELSE current_chat' = current_chat /\ Continue({"error"})
    /\ UNCHANGED <<chat_list_cache, user_settings, Backend>>

\* str.replace("@", "")
RECURSIVE remove_at(_)
remove_at(s) ==
    IF s = <<>> THEN <<>>
    ELSE IF Head(s) = "@" THEN remove_at(Tail(s))
    ELSE <<Head(s)>> \o remove_at(Tail(s))

FirstDialog(matches) ==
    IF matches = {} THEN <<>>
    ELSE <<Dialogs[CHOOSE i \in matches : \A j \in matches : i <= j]>>

\* Lookups that would try the names that contain the input before the names
\* that equal it
ResolveEntity_substring_first(target_input) ==
    LET substring ==
            {i \in DOMAIN Dialogs :
                contains(lower(get_display_name(Dialogs[i])), lower(target_input))}
        exact ==
            {i \in DOMAIN Dialogs :
                \/ lower(get_display_name(Dialogs[i])) = lower(target_input)
                \/ /\ Dialogs[i].username # <<>>
                   /\ lower(Dialogs[i].username) = remove_at(lower(target_input))}
    IN  IF substring # {} THEN FirstDialog(substring) ELSE FirstDialog(exact)

\* A resolution that would always find someone
ResolveEntity_first_dialog(target_input) == <<Dialogs[1]>>

\* The three lookups of /r: get_entity for @username, then the first dialog
\* whose name or username equals the input, then the first whose name
\* contains it; <<entity>> or <<>>
ResolveEntity(target_input) ==
    LET by_handle ==
            IF startswith(target_input, s_at)
            THEN {i \in DOMAIN Dialogs :
                     /\ Dialogs[i].username # <<>>
                     /\ lower(Dialogs[i].username) = lower(Tail(target_input))}
            ELSE {}
        exact ==
            {i \in DOMAIN Dialogs :
                \/ lower(get_display_name(Dialogs[i])) = lower(target_input)
                \/ /\ Dialogs[i].username # <<>>
                   /\ lower(Dialogs[i].username) = remove_at(lower(target_input))}
        substring ==
            {i \in DOMAIN Dialogs :
                contains(lower(get_display_name(Dialogs[i])), lower(target_input))}
    IN  IF by_handle # {} THEN FirstDialog(by_handle)
        ELSE IF exact # {} THEN FirstDialog(exact)
        ELSE FirstDialog(substring)

\* /recipient [name], /r [name]
CmdRecipient(msg) ==
    /\ Reads(msg, "recipient")
    /\ LET cmd == cmd_of[msg]
       IN  IF Len(cmd) > 1
           THEN /\ pc' = "resolve"
                /\ msg_clean' = <<>>
                /\ locals' = [NoLocals EXCEPT !.target_input = join(Tail(cmd))]
                /\ call' = [NoCall EXCEPT !.op = "resolve", !.text = join(Tail(cmd))]
                /\ out' = {"system"}
           ELSE /\ pc' = "name_prompt"
                /\ msg_clean' = <<>>
                /\ locals' = NoLocals
                /\ call' = NoCall
                /\ out' = {"system"}
    /\ UNCHANGED <<current_chat, chat_list_cache, user_settings, Backend>>

\* The lookups return, or one of them raises
ResolveReturn(ok) ==
    /\ pc = "resolve"
    /\ IF ok
       THEN LET new_entity == ResolveEntity(locals.target_input)
            IN  IF new_entity # <<>>
                THEN OpenChat(new_entity[1])
                ELSE current_chat' = current_chat /\ Returned(ok, {"error", "info"})
       ELSE current_chat' = current_chat /\ Returned(ok, {"error"})
    /\ UNCHANGED <<chat_list_cache, user_settings, Backend>>

----------------------------------------------------------------------------
(* The program *)

\* One iteration of the while loop on the line msg
Command(msg) ==
    \/ CmdEmpty(msg)
    \/ CmdExit(msg)
    \/ CmdHelp(msg)
    \/ CmdSettings(msg)
    \/ CmdClose(msg)
    \/ CmdStatus(msg)
    \/ CmdReply(msg)
    \/ CmdDelete(msg)
    \/ CmdContacts(msg)
    \/ CmdChats(msg)
    \/ CmdJump(msg)
    \/ CmdUnread(msg)
    \/ CmdRecipient(msg)
    \/ CmdHistory(msg)
    \/ CmdSend(msg)

\* The backend answers the request the dispatcher awaits
BackendReturns ==
    \E ok \in BOOLEAN :
        \/ FetchReturn(ok)
        \/ SendReturn(ok)
        \/ StatusReturn(ok)
        \/ ReplyScanReturn(ok)
        \/ DeleteReturn(ok)
        \/ ListingReturn(ok)
        \/ \E n \in 0..Len(Dialogs) : ContactsReturn(SubSeq(Dialogs, 1, n), ok)
        \/ OpenStatusReturn(ok)
        \/ ResolveReturn(ok)
        \/ \E n \in 0..Len(Dialogs) : ChatsReturn(n, ok)

\* The whole command table at work, with one correspondent writing
Next ==
    \/ \E msg \in InputLines : Command(msg)
    \/ \E confirm \in ConfirmAnswers : DeleteConfirm(confirm)
    \/ Interrupt
    \/ Disconnect
    \/ BackendReturns
    \/ Handler
    \/ \E text \in InboundTexts : Arrive(Dialogs[1].id, FALSE, text)
    \/ Tick

Spec == Init /\ [][Next]_vars

\* The command table in a conversation that holds one message at most: the
\* backend's message ids start at the last one the bound allows
SpecDispatch == InitAt(MaxMsgs) /\ [][Next]_vars

\* The lines that open, fill, reload and close chat sessions
SessionLines ==
    { <<"h", "i">>,
      Line(<<<<"/", "s", "e", "t">>, s_defaultHistory, <<"2">>>>),
      Line(<<s_h, <<"2">>>>),
      Line(<<s_reply, <<"1">>>>),
      s_chats,
      Line(<<<<"/", "c">>, <<"1">>>>),
      Line(<<<<"/", "c">>, <<"2">>>>),
      Line(<<<<"/", "r">>, <<"b", "o", "b">>>>),
      s_r_off }

\* The chat session under the dispatcher and the listener, with messages
\* arriving in every conversation at any time
NextSession ==
    \/ \E msg \in SessionLines :
          \/ CmdSettings(msg)
          \/ CmdClose(msg)
          \/ CmdReply(msg)
          \/ CmdChats(msg)
          \/ CmdJump(msg)
          \/ CmdRecipient(msg)
          \/ CmdHistory(msg)
          \/ CmdSend(msg)
    \/ \E ok \in BOOLEAN :
          \/ FetchReturn(ok)
          \/ SendReturn(ok)
          \/ OpenStatusReturn(ok)
          \/ ResolveReturn(ok)
          \/ ChatsReturn(Len(Dialogs), ok)
    \/ Handler
    \/ \E peer \in PeerIds, text \in InboundTexts : Arrive(peer, FALSE, text)

SpecSession == Init /\ [][NextSession]_vars

\* The lines that move from one conversation to another and refer to messages
\* by index
SwitchLines ==
    { <<"h", "i">>,
      Line(<<<<"/", "s", "e", "t">>, s_defaultHistory, <<"2">>>>),
      Line(<<s_reply, <<"1">>>>),
      Line(<<s_del, <<"2">>>>),
      s_chats,
      Line(<<<<"/", "c">>, <<"1">>>>),
      Line(<<<<"/", "r">>, <<"b", "o", "b">>>>) }

\* Sessions opened one after another by /c and /r, with /reply and /delete
\* naming indices in each
NextSwitch ==
    \/ \E msg \in SwitchLines :
          \/ CmdSettings(msg)
          \/ CmdReply(msg)
          \/ CmdDelete(msg)
          \/ CmdChats(msg)
          \/ CmdJump(msg)
          \/ CmdRecipient(msg)
          \/ CmdSend(msg)
    \/ \E ok \in BOOLEAN :
          \/ FetchReturn(ok)
          \/ SendReturn(ok)
          \/ OpenStatusReturn(ok)
          \/ ResolveReturn(ok)
          \/ ChatsReturn(Len(Dialogs), ok)
          \/ DeleteReturn(ok)
    \/ \E confirm \in ConfirmAnswers : DeleteConfirm(confirm)
    \/ Handler
    \/ \E peer \in PeerIds, text \in InboundTexts : Arrive(peer, FALSE, text)

SpecSwitch == Init /\ [][NextSwitch]_vars

\* The lines that fill a conversation and delete from it
DeleteLines ==
    { <<"h", "i">>,
      Line(<<<<"/", "r">>, <<"b", "o", "b">>>>),
      Line(<<s_del, <<"1">>, <<"9">>, <<"x">>, <<"2">>>>),
      Line(<<s_del, <<"9">>>>),
      Line(<<s_del, <<"2">>>>),
      Line(<<s_del, <<"1">>, <<"sup2">>>>) }

\* /delete at work in one conversation, its correspondent writing
NextDelete ==
    \/ \E msg \in DeleteLines :
          \/ CmdRecipient(msg)
          \/ CmdSend(msg)
          \/ CmdDelete(msg)
    \/ \E confirm \in ConfirmAnswers : DeleteConfirm(confirm)
    \/ Interrupt
    \/ Disconnect
    \/ \E ok \in BOOLEAN :
          \/ ResolveReturn(ok)
          \/ SendReturn(ok)
          \/ DeleteReturn(ok)
    \/ Handler
    \/ \E text \in InboundTexts : Arrive(Dialogs[2].id, FALSE, text)

SpecDelete == Init /\ [][NextDelete]_vars

\* After the loop the next statement is the disconnection
SpecDeleteFair == SpecDelete /\ WF_vars(Disconnect)

----------------------------------------------------------------------------
(* The index of a chat session *)

\* C1: while a chat session is open, the keys of its message_index_map are
\* exactly 1 .. next_index - 1, whatever mix of history loads, arrivals the
\* listener handled and sends produced them.
C1_IndexKeysContiguous ==
    current_chat # None =>
        DOMAIN chat.message_index_map = 1..(chat.next_index - 1)

\* A session whose index holds as many messages as the bound allows, some of
\* them sent from here and some received
C1_MixedIndexReached ==
    /\ current_chat # None
    /\ chat.next_index = MaxMsgs + 1
    /\ \E i, j \in DOMAIN chat.message_index_map :
          chat.message_index_map[i].out /\ ~chat.message_index_map[j].out

\* The step replaces the index as a whole: a history load renders, or a
\* session is opened or closed
IndexReplaced ==
    \/ FetchReturn(TRUE)
    \/ ResolveReturn(TRUE)
    \/ \E msg \in InputLines : CmdJump(msg) \/ CmdClose(msg)

\* C2: between two replacements of the index, whichever of the dispatcher and
\* the listener runs, a step keeps every entry of the index as it is, and an
\* entry it adds goes to the index next_index held, which moves on by one.
C2_IndexAssignmentSerialized ==
    [][(current_chat # None /\ ~IndexReplaced) =>
          /\ current_chat' # None
          /\ \A i \in DOMAIN chat.message_index_map :
                /\ i \in DOMAIN chat'.message_index_map
                /\ chat'.message_index_map[i] = chat.message_index_map[i]
          /\ \A i \in DOMAIN chat'.message_index_map \ DOMAIN chat.message_index_map :
                i = chat.next_index /\ chat'.next_index = i + 1]_vars

\* The listener has just indexed an arrival while the dispatcher awaits
\* send_message
C2_ArrivalDuringSend ==
    /\ pc = "send"
    /\ "plain" \in out
    /\ chat.next_index > 1
    /\ next_msg_id <= MaxMsgs

\* C3: a send that started with a reply target clears the target exactly when
\* send_message returns; when it raises, the target, its snippet, the index
\* and next_index stay as they are, and the next send carries the same target.
C3_ReplyClearedIffSent ==
    [][/\ (pc = "send" /\ locals.reply_to # 0) =>
             /\ SendReturn(TRUE) =>
                   chat'.reply_to_msg_id = 0 /\ chat'.reply_snippet = <<>>
             /\ ~SendReturn(TRUE) =>
                   /\ chat'.reply_to_msg_id = locals.reply_to
                   /\ chat'.reply_snippet = chat.reply_snippet
             /\ SendReturn(FALSE) =>
                   /\ chat'.message_index_map = chat.message_index_map
                   /\ chat'.next_index = chat.next_index
       /\ \A msg \in InputLines :
             (CmdSend(msg) /\ current_chat # None) =>
                 call'.reply_to = chat.reply_to_msg_id]_vars

\* send_message has just raised in a session that had a reply target
C3_FailedSendKeepsReply ==
    /\ pc = "prompt"
    /\ call.answered = "send"
    /\ call.failed
    /\ chat.reply_to_msg_id # 0

----------------------------------------------------------------------------
(* /delete *)

\* The arguments of /delete that are decimal numbers and indices of the map
ValidArgs(args, index_map) ==
    SelectSeq(args, LAMBDA arg : AllAsciiDigits(arg) /\ int(arg) \in DOMAIN index_map)

\* C4: whatever its arguments, /delete goes through them all: it asks for
\* confirmation of exactly the messages at the arguments that are numbers and
\* indices of the map (or of none, and stops), the confirmed request carries
\* exactly their ids, and no argument ends the command or the program.
C4_DeleteSkipsBadArguments ==
    [][/\ \A msg \in InputLines :
             (CmdDelete(msg) /\ current_chat # None /\ Len(cmd_of[msg]) >= 2) =>
                 LET valid == ValidArgs(Tail(cmd_of[msg]), chat.message_index_map)
                 IN  /\ pc' \in {"confirm", "prompt"}
                     /\ pc' = "confirm" <=> valid # <<>>
                     /\ locals'.msgs_to_delete =
                            [i \in DOMAIN valid |-> chat.message_index_map[int(valid[i])]]
       /\ call'.op = "delete_messages" =>
             pc = "confirm" /\ call'.ids = MessageIds(locals.msgs_to_delete)]_vars

\* C5 as stated: delete_messages is requested only when the confirmation was
\* answered with the one-character line y.
C5_OnlyLowercaseYConfirms ==
    [][call'.op = "delete_messages" => locals'.confirm = s_y]_vars

\* C5: delete_messages is requested only by the step that answers the
\* confirmation prompt of a /delete, with an answer that lower() turns into y
\* (y or Y), for the messages that prompt was about; any other answer, and a
\* /delete with no valid index, returns to the prompt with no request made
\* and nothing deleted.
C5_DeleteOnlyAfterConfirmation ==
    [][/\ call'.op = "delete_messages" =>
             /\ pc = "confirm"
             /\ locals'.confirm \in {<<"y">>, <<"Y">>}
             /\ locals.msgs_to_delete # <<>>
             /\ call'.ids = MessageIds(locals.msgs_to_delete)
       /\ (\E p \in PeerIds : ~(Range(store[p]) \subseteq Range(store'[p]))) =>
             pc = "delete"
       /\ (pc = "confirm" /\ pc' = "prompt") => call' = NoCall /\ store' = store
       /\ \A msg \in InputLines :
             CmdDelete(msg) =>
                 /\ call' = NoCall
                 /\ pc' = "confirm" => locals'.msgs_to_delete # <<>>]_vars

\* delete_messages is awaited after the prompt was answered Y
C5_UppercaseConfirmed ==
    /\ pc = "delete"
    /\ locals.confirm = <<"Y">>
    /\ call.op = "delete_messages"

----------------------------------------------------------------------------
(* The command table *)

\* C6: /recipient <name> does what /r <name> does: it looks the name up, and
\* a name that resolves opens a new session for that peer.
C6_RecipientLikeR ==
    [][\A msg \in InputLines :
          (startswith(msg, s_recipient) /\ Len(cmd_of[msg]) > 1 /\ Command(msg)) =>
              /\ pc' = "resolve"
              /\ locals'.target_input = join(Tail(cmd_of[msg]))]_vars

\* The positions at which the dispatcher awaits the backend
Awaits ==
    {"fetch", "send", "status", "reply_scan", "delete", "listing", "contacts",
     "chats",
     "open_status", "resolve"}

\* C7: a step that ends an await of the backend leaves the dispatcher at the
\* prompt or at its next await, and a request that failed has printed an error.
C7_BackendFailureNeverEndsLoop ==
    [][(pc \in Awaits) =>
          /\ pc' \in Awaits \cup {"prompt"}
          /\ call'.failed => "error" \in out']_vars

\* The first tokens the command table names
CommandNames ==
    {s_help, s_h, s_settings, rstrip(s_set_sp), rstrip(s_r_sp), s_slashslash, s_out,
     s_status, s_s, s_reply, s_delete, s_del, s_rm, s_contacts, s_chats,
     rstrip(s_c_sp), s_unread, s_recipient, s_history, s_exit}

\* C8: no send_message request carries a line whose first token is a command
\* name.
C8_CommandsNeverSent ==
    call.op = "send_message" => split(call.text)[1] \notin CommandNames

----------------------------------------------------------------------------
(* History loads and the opening of sessions *)

\* C9: when get_messages of a history load raises, an error is printed and
\* the session is what it was: neither /history nor the failed load resets
\* message_index_map, next_index, the reply target or last_message_date.
C9_FailedFetchChangesNothing ==
    [][/\ (pc = "fetch" /\ call'.answered = "fetch" /\ call'.failed) =>
             current_chat' = current_chat /\ "error" \in out' /\ pc' = "prompt"
       /\ \A msg \in InputLines : CmdHistory(msg) => current_chat' = current_chat]_vars

\* get_messages has just raised under a session that holds indexed messages
\* and a reply target
C9_FailedFetchReached ==
    /\ pc = "prompt"
    /\ call.answered = "fetch"
    /\ call.failed
    /\ chat.message_index_map # <<>>
    /\ chat.reply_to_msg_id # 0

\* C10: a session opened by /c or /r starts with an empty index, so that no
\* later state of it holds a message of another conversation, and /reply n or
\* /delete n with an n the session has not assigned prints an error, sets no
\* reply target and asks the backend nothing.
C10_SwitchDiscardsIndex ==
    [][/\ current_chat' # None =>
             \A i \in DOMAIN chat'.message_index_map :
                 chat'.message_index_map[i].chat_id = chat'.entity.id
       /\ ((ResolveReturn(TRUE) \/ \E msg \in InputLines : CmdJump(msg))
              /\ current_chat' # current_chat) =>
             chat'.message_index_map = <<>> /\ chat'.next_index = 1
       /\ \A msg \in InputLines :
             ((CmdReply(msg) \/ CmdDelete(msg))
                 /\ current_chat # None
                 /\ Len(cmd_of[msg]) = 2
                 /\ AllAsciiDigits(cmd_of[msg][2])
                 /\ int(cmd_of[msg][2]) \notin DOMAIN chat.message_index_map) =>
                 /\ "error" \in out'
                 /\ current_chat' = current_chat
                 /\ pc' = "prompt"
                 /\ call' = NoCall]_vars

\* An index has just been refused in a session whose index is empty, while
\* the other conversation holds a message sent from here, which the session
\* that sent it had indexed
C10_OldIndexRefused ==
    /\ pc = "prompt"
    /\ out = {"error"}
    /\ call = NoCall
    /\ current_chat # None
    /\ chat.message_index_map = <<>>
    /\ \E p \in PeerIds \ {chat.entity.id} : \E i \in DOMAIN store[p] : store[p][i].out

----------------------------------------------------------------------------
(* /c [n] on every kind of argument *)

JumpLines ==
    { <<"h", "i">>,
      s_chats,
      Line(<<<<"/", "c">>, <<"0">>>>),
      Line(<<<<"/", "c">>, <<"-", "1">>>>),
      Line(<<<<"/", "c">>, <<"x">>>>),
      <<"/", "c", " ">>,
      Line(<<<<"/", "c">>, <<"1">>>>),
      Line(<<<<"/", "c">>, <<"2">>>>),
      Line(<<<<"/", "c">>, <<"3">>>>) }

\* /chats, whose listing may break off early, and /c on what it cached
NextJump ==
    \/ \E msg \in JumpLines :
          \/ CmdChats(msg)
          \/ CmdJump(msg)
          \/ CmdSend(msg)
    \/ \E n \in 0..Len(Dialogs), ok \in BOOLEAN : ChatsReturn(n, ok)
    \/ \E ok \in BOOLEAN :
          \/ OpenStatusReturn(ok)
          \/ SendReturn(ok)
    \/ Handler
    \/ \E text \in InboundTexts : Arrive(Dialogs[1].id, FALSE, text)

SpecJump == Init /\ [][NextJump]_vars

\* The text typed after "/c "
JumpArgument(msg) == strip(SubSeq(msg, 4, Len(msg)))

\* The line is /c followed by a space and by something that is not a number
\* of the cached chat list
JumpOutOfList(msg) ==
    /\ startswith(msg, <<"/", "c", " ">>)
    /\ LET arg == JumpArgument(msg)
       IN  ~int_ok(arg) \/ int(arg) \notin 1..Len(chat_list_cache)

\* C11: /c n with n outside 1..len(cached chat list) -- n = 0, a negative n,
\* an empty cache, a non-numeric argument, or nothing after the space --
\* reports an error and leaves the current session unchanged, and no backend
\* call is made.
C11_JumpOutOfListOnlyReports ==
    [][\A msg \in JumpLines :
          (JumpOutOfList(msg) /\ Command(msg))
              => /\ "error" \in out'
                 /\ current_chat' = current_chat
                 /\ call'.op = "none"
                 /\ pc' = "prompt"]_vars

\* The same without the line that ends after the space
C11_JumpWithArgumentOnlyReports ==
    [][\A msg \in JumpLines :
          (JumpOutOfList(msg) /\ JumpArgument(msg) # <<>> /\ Command(msg))
              => /\ "error" \in out'
                 /\ current_chat' = current_chat
                 /\ call'.op = "none"
                 /\ pc' = "prompt"]_vars

\* A refused /c: the error is on screen and the session open before is still
\* the one open
C11_JumpRefused ==
    /\ pc = "prompt"
    /\ out = {"error"}
    /\ current_chat # None
    /\ Len(chat_list_cache) = 1
    /\ call = NoCall

----------------------------------------------------------------------------
(* /reply: the target by index, the target by scan, the cancellations *)

ReplyLines ==
    { <<"h", "i">>,
      Line(<<<<"/", "r">>, <<"b", "o", "b">>>>),
      s_reply,
      Line(<<s_reply, <<"1">>>>),
      Line(<<s_reply, <<"2">>>>),
      Line(<<s_reply, s_cancel>>) }

\* One conversation, opened at any moment of the exchange: what was said
\* before the opening is in the backend and not in the index
NextReply ==
    \/ \E msg \in ReplyLines :
          \/ CmdRecipient(msg)
          \/ CmdSend(msg)
          \/ CmdReply(msg)
    \/ \E ok \in BOOLEAN :
          \/ ResolveReturn(ok)
          \/ SendReturn(ok)
          \/ ReplyScanReturn(ok)
    \/ Handler
    \/ \E is_out \in BOOLEAN, text \in InboundTexts :
          Arrive(Dialogs[2].id, is_out, text)

SpecReply == Init /\ [][NextReply]_vars

\* The step gives the open session a reply target it did not have
ReplyTargetSet ==
    /\ current_chat # None
    /\ current_chat' # None
    /\ current_chat'[1].reply_to_msg_id # 0
    /\ current_chat'[1].reply_to_msg_id # chat.reply_to_msg_id

\* C12 as stated: whenever pendingReply is set, the message it targets was
\* stored under some index of the session's indexTable at that moment, for
\* /reply n and for /reply without an argument alike.
C12_ReplyTargetWasIndexed ==
    [][ReplyTargetSet
          => \E i \in DOMAIN chat.message_index_map :
                chat.message_index_map[i].id = current_chat'[1].reply_to_msg_id]_vars

\* C12, amended: pendingReply set by /reply n targets the message stored under
\* index n of the indexTable at that moment; set by /reply without an
\* argument it targets a message of the peer held by the backend and not sent
\* by the local user, whether the indexTable holds that message or not.
C12_ReplyTargetIndexedOrScanned ==
    [][ReplyTargetSet
          => \/ \E msg \in ReplyLines :
                   /\ CmdReply(msg)
                   /\ Len(cmd_of[msg]) > 1
                   /\ int_ok(cmd_of[msg][2])
                   /\ int(cmd_of[msg][2]) \in DOMAIN chat.message_index_map
                   /\ chat.message_index_map[int(cmd_of[msg][2])].id =
                          current_chat'[1].reply_to_msg_id
             \/ /\ pc = "reply_scan"
                /\ \E i \in DOMAIN store[chat.entity.id] :
                      /\ ~store[chat.entity.id][i].out
                      /\ store[chat.entity.id][i].id =
                             current_chat'[1].reply_to_msg_id]_vars

\* A reply is pending on a message that the indexTable does not hold, in a
\* session whose indexTable holds another one
C12_TargetOutsideIndex ==
    /\ current_chat # None
    /\ chat.reply_to_msg_id # 0
    /\ chat.message_index_map # <<>>
    /\ \A i \in DOMAIN chat.message_index_map :
          chat.message_index_map[i].id # chat.reply_to_msg_id

\* The positions, in the backend's chronological list of the open peer, of
\* the messages a scan of ReplyLookback messages sees and that are not out
ScannedInbound ==
    LET all == store[chat.entity.id]
    IN  {i \in DOMAIN all : i > Len(all) - ReplyLookback /\ ~all[i].out}

\* C13: /reply with no argument and no pending reply sets pendingReply to the
\* newest message, among the at most 50 most recent backend messages of the
\* current peer, that was not sent by the local user; if there is none it
\* reports failure and pendingReply stays unset.
C13_ScanTakesNewestInbound ==
    [][(pc = "reply_scan" /\ pc' = "prompt" /\ Len(split(msg_clean)) = 1)
          => IF ScannedInbound = {}
             THEN /\ "error" \in out'
                  /\ current_chat'[1].reply_to_msg_id = 0
             ELSE LET newest == CHOOSE i \in ScannedInbound :
                                   \A j \in ScannedInbound : j <= i
                  IN  current_chat'[1].reply_to_msg_id =
                          store[chat.entity.id][newest].id]_vars

\* A scan has returned with a target although the newest message of the peer
\* is the local user's and an older one is not
C13_ScanSkippedOwnMessage ==
    /\ current_chat # None
    /\ call.answered = "reply_scan"
    /\ chat.reply_to_msg_id # 0
    /\ LET all == store[chat.entity.id]
       IN  /\ Len(all) = MaxMsgs
           /\ all[Len(all)].out
           /\ \E i, j \in DOMAIN all : i < j /\ ~all[i].out /\ ~all[j].out

\* The line cancels: it holds "cancel", or it is /reply alone while a reply is
\* pending
Cancels(msg) ==
    \/ contains(clean_of[msg], s_cancel)
    \/ Len(cmd_of[msg]) = 1 /\ chat.reply_to_msg_id # 0

\* C14: /reply with no argument while a reply is pending clears pendingReply
\* without any backend call, so /reply n followed by /reply returns the
\* session to the state with no pending reply: /reply n changes nothing but
\* the target and its snippet, and the cancellation takes both away;
\* /reply cancel when nothing is pending succeeds and leaves pendingReply unset.
C14_ReplyToggleOff ==
    [][\A msg \in ReplyLines :
          (CmdReply(msg) /\ current_chat # None)
              => /\ Cancels(msg)
                    => /\ current_chat' =
                             <<[chat EXCEPT !.reply_to_msg_id = 0,
                                            !.reply_snippet = <<>>]>>
                       /\ call' = NoCall
                       /\ pc' = "prompt"
                       /\ out' = {"system"}
                 /\ current_chat' # None
                 /\ [current_chat'[1] EXCEPT !.reply_to_msg_id = 0,
                                             !.reply_snippet = <<>>]
                      = [chat EXCEPT !.reply_to_msg_id = 0,
                                     !.reply_snippet = <<>>]]_vars

\* A cancellation has just been done in a session that holds messages
C14_ReplyCancelled ==
    /\ pc = "prompt"
    /\ out = {"system"}
    /\ current_chat # None
    /\ chat.reply_to_msg_id = 0
    /\ chat.reply_snippet = <<>>
    /\ chat.next_index > 2

----------------------------------------------------------------------------
(* Reloading the history *)

\* The table that holds the messages of a fetch, newest first as the backend
\* returns them, under 1..count in chronological order
ChronologicalTable(history_msgs) ==
    [i \in 1..Len(history_msgs) |-> history_msgs[Len(history_msgs) + 1 - i]]

\* C15: history reload is idempotent in structure: a load that returns n
\* messages leaves indices 1..n mapped to them in chronological order and
\* nextIndex = n + 1 whatever the table was before, so a second load that
\* returns the same messages, with no arrival or send in between, produces the
\* same indexTable and the same nextIndex.
C15_ReloadIdempotent ==
    [][(pc = "fetch" /\ pc' = "prompt" /\ ~call'.failed)
          => LET history_msgs == get_messages(chat.entity.id, locals.limit_count)
                 again == RenderHistory(current_chat'[1], history_msgs)
             IN  /\ current_chat'[1].message_index_map =
                        ChronologicalTable(history_msgs)
                 /\ current_chat'[1].next_index = Len(history_msgs) + 1
                 /\ again.message_index_map = current_chat'[1].message_index_map
                 /\ again.next_index = current_chat'[1].next_index]_vars

\* A load is on its way whose messages are the ones the table already holds
\* from the load before
C15_SecondLoadPending ==
    /\ pc = "fetch"
    /\ chat.next_index = 3
    /\ chat.message_index_map =
           ChronologicalTable(get_messages(chat.entity.id, locals.limit_count))

----------------------------------------------------------------------------
(* Events for another conversation *)

\* The event at the head of the queue is not for the open chat, or no chat is
\* open
ForeignEvent ==
    /\ updates # <<>>
    /\ current_chat = None \/ Head(updates).chat_id # chat.entity.id

\* C17: an inbound event whose peer is not the currently open peer, or that
\* arrives while no session is open, is dropped: the session (indexTable,
\* nextIndex, lastRenderedDate, pendingReply) is unchanged and nothing is
\* rendered; and it is not buffered for replay: the event is gone from the
\* queue, and a session that is opened starts with an empty indexTable and
\* renders nothing but its opening lines.
C17_ForeignEventDropped ==
    /\ [][(ForeignEvent /\ Handler)
             => /\ current_chat' = current_chat
                /\ out' = {}
                /\ \A i \in DOMAIN updates' : updates'[i] # Head(updates)]_vars
    /\ [][(current_chat' # None
           /\ (current_chat = None \/ current_chat'[1].entity # chat.entity))
             => /\ current_chat'[1].message_index_map = <<>>
                /\ current_chat'[1].next_index = 1
                /\ out' \subseteq {"date", "system"}]_vars

\* The last message of all was posted in another conversation than the open
\* one, whose table holds messages; the listener has taken its event from the
\* queue, and nothing was printed
C17_EventOfOtherPeerGone ==
    /\ pc = "prompt"
    /\ out = {}
    /\ updates = <<>>
    /\ current_chat # None
    /\ chat.reply_to_msg_id = 0
    /\ chat.message_index_map # <<>>
    /\ \E peer \in PeerIds \ {chat.entity.id} :
          /\ store[peer] # <<>>
          /\ store[peer][Len(store[peer])].id = next_msg_id - 1
          /\ \A i \in DOMAIN chat.message_index_map :
                chat.message_index_map[i].id # next_msg_id - 1

----------------------------------------------------------------------------
(* defaultHistory and /history [n] *)

HistoryLines ==
    { <<"h", "i">>,
      Line(<<<<"/", "r">>, <<"b", "o", "b">>>>),
      s_r_off,
      s_history,
      Line(<<s_h, <<"2">>>>),
      Line(<<s_history, <<"0">>>>),
      Line(<<s_history, <<"5", "0", "1">>>>),
      Line(<<s_history, <<"x">>>>),
      Line(<<s_history, <<"sup2">>>>),
      Line(<<<<"/", "s", "e", "t">>, s_defaultHistory>>),
      Line(<<<<"/", "s", "e", "t">>, s_defaultHistory, <<"2">>>>),
      Line(<<<<"/", "s", "e", "t">>, s_defaultHistory, <<"1", "5", "0">>>>),
      Line(<<<<"/", "s", "e", "t">>, s_defaultHistory, <<"-", "5">>>>),
      Line(<<<<"/", "s", "e", "t">>, s_defaultHistory, <<"sup2">>>>) }

\* One conversation opened and closed, its history loaded on opening and on
\* request, the number to load on opening set by the user
NextHistory ==
    \/ \E msg \in HistoryLines :
          \/ CmdSettings(msg)
          \/ CmdRecipient(msg)
          \/ CmdClose(msg)
          \/ CmdHistory(msg)
          \/ CmdSend(msg)
    \/ \E ok \in BOOLEAN :
          \/ ResolveReturn(ok)
          \/ FetchReturn(ok)
          \/ SendReturn(ok)
    \/ Handler
    \/ \E text \in InboundTexts : Arrive(Dialogs[2].id, FALSE, text)

SpecHistory == Init /\ [][NextHistory]_vars

\* The value is a decimal integer in 0..100
DecimalInRange(value) ==
    /\ AllAsciiDigits(value)
    /\ int(value) \in 0..MaxDefaultHistory

\* The line gives defaultHistory a value
SetsDefaultHistory(msg) ==
    /\ Len(cmd_of[msg]) >= 3
    /\ cmd_of[msg][2] = s_defaultHistory

\* C16: setting defaultHistory through /settings or /set to any value that is
\* not a decimal integer in 0..100 is rejected with an error and leaves the
\* stored value unchanged; consequently, starting from the default settings,
\* defaultHistory is an integer in 0..100 after any sequence of settings
\* commands.
C16_BadDefaultHistoryRejected ==
    /\ [][\A msg \in HistoryLines :
             (CmdSettings(msg) /\ SetsDefaultHistory(msg)
              /\ ~DecimalInRange(cmd_of[msg][3]))
                 => /\ "error" \in out'
                    /\ user_settings' = user_settings
                    /\ pc' = "prompt"]_vars
    /\ [](user_settings.defaultHistory \in 0..MaxDefaultHistory)

\* The same for the values on which int() returns
C16_ParsableDefaultHistoryRejected ==
    /\ [][\A msg \in HistoryLines :
             (CmdSettings(msg) /\ SetsDefaultHistory(msg)
              /\ ~DecimalInRange(cmd_of[msg][3])
              /\ ~(isdigit(cmd_of[msg][3]) /\ ~int_ok(cmd_of[msg][3])))
                 => /\ "error" \in out'
                    /\ user_settings' = user_settings
                    /\ pc' = "prompt"]_vars
    /\ [](user_settings.defaultHistory \in 0..MaxDefaultHistory)

\* C20: every backend fetchMessages call issued by the history loader, from
\* /history n or from the automatic load on opening, has a limit in 1..500:
\* /history without a numeric argument uses 20, /history n with n > 500 uses
\* 500, and a requested count of 0 performs no fetch, prints nothing and
\* leaves indexTable and nextIndex unchanged.
C20_FetchLimitInRange ==
    /\ [](call.op = "get_messages" => call.limit \in 1..HistoryCap)
    /\ [][\A msg \in HistoryLines :
             (CmdHistory(msg) /\ current_chat # None)
                 => LET cmd == cmd_of[msg]
                        fetches(limit) == /\ pc' = "fetch"
                                          /\ call'.op = "get_messages"
                                          /\ call'.peer = chat.entity.id
                                          /\ call'.limit = limit
                    IN  /\ (Len(cmd) = 1 \/ ~isdigit(cmd[2]))
                           => fetches(DefaultHistoryLimit)
                        /\ (Len(cmd) > 1 /\ AllAsciiDigits(cmd[2]))
                           => IF int(cmd[2]) > HistoryCap THEN fetches(HistoryCap)
                              ELSE IF int(cmd[2]) > 0 THEN fetches(int(cmd[2]))
                              ELSE /\ pc' = "prompt"
                                   /\ call' = NoCall
                                   /\ out' = {}
                                   /\ current_chat' = current_chat]_vars

\* The loader has asked for 500 messages in a session that holds some
C20_CappedFetchPending ==
    /\ pc = "fetch"
    /\ call.op = "get_messages"
    /\ call.limit = HistoryCap
    /\ chat.message_index_map # <<>>

----------------------------------------------------------------------------
(* The commands of a session, with no session open *)

\* The branches that act on the open chat
SessionBranches == {"send", "status", "reply", "delete", "history"}

\* The requests about the current peer
PeerRequests == {"send_message", "delete_messages", "get_messages",
                 "iter_messages", "get_entity"}

\* C18: while no chat session is open, the dispatcher issues no backend send,
\* delete, message-fetch or presence-fetch call for the current peer: the
\* default send action, /status, /reply, /delete and /history each only report
\* an error and leave the state Closed.
C18_ClosedOnlyReports ==
    /\ [](current_chat = None => call.op \notin PeerRequests)
    /\ [][\A msg \in InputLines :
             (current_chat = None /\ branch_of[msg] \in SessionBranches
              /\ Command(msg))
                 => /\ "error" \in out'
                    /\ pc' = "prompt"
                    /\ call' = NoCall
                    /\ current_chat' = None]_vars

\* The same without the lines on which int() raises
C18_ClosedParsableOnlyReports ==
    /\ [](current_chat = None => call.op \notin PeerRequests)
    /\ [][\A msg \in InputLines :
             (current_chat = None /\ branch_of[msg] \in SessionBranches
              /\ Command(msg)
              /\ \A i \in DOMAIN cmd_of[msg] :
                    isdigit(cmd_of[msg][i]) => int_ok(cmd_of[msg][i]))
                 => /\ "error" \in out'
                    /\ pc' = "prompt"
                    /\ call' = NoCall
                    /\ current_chat' = None]_vars

----------------------------------------------------------------------------
(* Interrupt and end of input *)

\* C19: a user interrupt or EOF raised at a pending prompt wait (the main
\* prompt, the /delete confirmation prompt, or the /r name prompt) ends the
\* main loop, after which the backend connection is closed and no further
\* command is processed; an interrupt at the /delete confirmation prompt
\* results in no backend delete call.
C19_InterruptEndsLoop ==
    /\ [][Interrupt => (pc' = "exited" /\ call'.op = "none")]_vars
    /\ [][(pc \in {"exited", "disconnected"})
             => /\ pc' \in {"exited", "disconnected"}
                /\ call'.op \in {"none", "disconnect"}
                /\ current_chat' = current_chat
                /\ store' = store]_vars
    /\ (pc = "exited") ~> (pc = "disconnected" /\ call.op = "disconnect")

\* The connection is closed after an interrupt at the confirmation prompt:
\* the messages picked for deletion are all still with the backend
C19_InterruptedAtConfirmation ==
    /\ pc = "disconnected"
    /\ locals.msgs_to_delete # <<>>
    /\ \A i \in DOMAIN locals.msgs_to_delete :
          locals.msgs_to_delete[i] \in Range(store[chat.entity.id])

----------------------------------------------------------------------------
(* The listings: /contacts and /chats, and /c on what /chats cached *)

ListingLines ==
    { s_contacts,
      Line(<<s_contacts, <<"0">>>>),
      Line(<<s_contacts, <<"1">>>>),
      Line(<<s_contacts, <<"2">>>>),
      Line(<<s_contacts, s_abc>>),
      Line(<<s_contacts, s_abc, <<"0">>>>),
      Line(<<s_contacts, s_abc, <<"1">>>>),
      Line(<<s_contacts, <<"2">>, s_abc>>),
      Line(<<s_contacts, s_all>>),
      Line(<<s_contacts, <<"sup2">>>>),
      s_chats,
      Line(<<s_chats, s_group>>),
      Line(<<s_chats, s_users, <<"1">>>>),
      Line(<<s_chats, <<"1">>>>),
      Line(<<<<"/", "c">>, <<"1">>>>),
      Line(<<<<"/", "c">>, <<"2">>>>) }

\* The dialogs the account may hold when /contacts asks for them: the two
\* conversations, a bot, and two more users
ContactEntities ==
    { Dialogs[1], Dialogs[2],
      Entity(3, "User", TRUE, <<"r", "o", "b">>, <<"r", "o", "b", "o", "t">>),
      Entity(4, "User", FALSE, <<"Z", "e", "d">>, <<>>),
      Entity(5, "User", FALSE, <<"a", "l">>, <<>>) }

MaxDialogs == 3

\* iter_dialogs yields them most recent first, whichever that is
DialogLists ==
    {dialogs \in UNION {[1..n -> ContactEntities] : n \in 0..MaxDialogs} :
        \A i, j \in DOMAIN dialogs : i # j => dialogs[i] # dialogs[j]}

NextListing ==
    \/ \E msg \in ListingLines :
          \/ CmdContacts(msg)
          \/ CmdChats(msg)
          \/ CmdJump(msg)
    \/ \E dialogs \in DialogLists, ok \in BOOLEAN : ContactsReturn(dialogs, ok)
    \/ \E n \in 0..Len(Dialogs), ok \in BOOLEAN : ChatsReturn(n, ok)
    \/ \E ok \in BOOLEAN : OpenStatusReturn(ok)

SpecListing == Init /\ [][NextListing]_vars

\* C21: for every numeric count n >= 0, /contacts n and /contacts abc n list
\* at most n peers, and every listed peer is a user dialog that is not a bot.
C21_ContactsAtMostCount ==
    [][(pc = "contacts" /\ pc' = "prompt" /\ ~call'.failed)
          => /\ locals.target_count < 999999
                => Len(locals'.user_dialogs) <= locals.target_count
             /\ \A i \in DOMAIN locals'.user_dialogs :
                   /\ locals'.user_dialogs[i].kind = "User"
                   /\ ~locals'.user_dialogs[i].bot]_vars

\* The same for the counts n >= 1
C21_ContactsAtMostPositiveCount ==
    [][(pc = "contacts" /\ pc' = "prompt" /\ ~call'.failed)
          => /\ (locals.target_count < 999999 /\ locals.target_count >= 1)
                => Len(locals'.user_dialogs) <= locals.target_count
             /\ \A i \in DOMAIN locals'.user_dialogs :
                   /\ locals'.user_dialogs[i].kind = "User"
                   /\ ~locals'.user_dialogs[i].bot]_vars

----------------------------------------------------------------------------
(* A history load with the listener at work *)

\* C22: when a history load completes successfully, indexTable maps 1..count
\* to exactly the fetched messages, oldest first, and nextIndex = count + 1,
\* whatever the listener indexed while the fetch was in flight; an entry
\* indexed before the fetch returned is not retained unless the fetch
\* returned its message.
C22_LoadReplacesLiveEntries ==
    [][(pc = "fetch" /\ pc' = "prompt" /\ ~call'.failed)
          => LET history_msgs == get_messages(chat.entity.id, locals.limit_count)
                 count == Len(history_msgs)
                 table == current_chat'[1].message_index_map
             IN  /\ DOMAIN table = 1..count
                 /\ \A i \in 1..count :
                       /\ table[i] = history_msgs[count + 1 - i]
                       /\ \A j \in 1..count : i < j => table[i].id < table[j].id
                 /\ current_chat'[1].next_index = count + 1
                 /\ \A i \in DOMAIN chat.message_index_map :
                       chat.message_index_map[i] \notin Range(history_msgs)
                           => chat.message_index_map[i] \notin Range(table)]_vars

\* While a fetch is in flight the listener has just rendered a message under
\* an index above the fetch's count
C22_ArrivalIndexedDuringFetch ==
    /\ pc = "fetch"
    /\ "plain" \in out
    /\ chat.next_index > locals.limit_count + 1

----------------------------------------------------------------------------
(* The user's own messages coming back as events *)

EchoLines ==
    { <<"h", "i">>,
      s_chats,
      Line(<<<<"/", "c">>, <<"1">>>>) }

\* A conversation with a user, no history loaded; the backend may or may not
\* push the event of a message this client sent
NextEcho ==
    \/ \E msg \in EchoLines :
          \/ CmdChats(msg)
          \/ CmdJump(msg)
          \/ CmdSend(msg)
    \/ \E ok \in BOOLEAN :
          \/ ChatsReturn(Len(Dialogs), ok)
          \/ OpenStatusReturn(ok)
          \/ SendReturn(ok)
    \/ SendReturnEchoed
    \/ Handler
    \/ \E text \in InboundTexts : Arrive(Dialogs[1].id, FALSE, text)

SpecEcho == Init /\ [][NextEcho]_vars

\* C23: every message shown in the current view is indexed exactly once:
\* between two history resets no backend message id is stored under two
\* different indices of indexTable, including when the backend delivers to
\* the listener an outgoing event for a message the dispatcher itself has just
\* sent and indexed.
C23_IndexedExactlyOnce ==
    current_chat # None
        => \A i, j \in DOMAIN chat.message_index_map :
              i # j => chat.message_index_map[i].id # chat.message_index_map[j].id

----------------------------------------------------------------------------
(* /reply n *)

ReplyIndexLines ==
    { <<"h", "i">>,
      s_long,
      Line(<<<<"/", "r">>, <<"b", "o", "b">>>>),
      Line(<<s_reply, <<"1">>>>),
      Line(<<s_reply, <<"2">>>>),
      Line(<<s_reply, <<"9">>>>),
      Line(<<s_reply, <<"-", "1">>>>) }

NextReplyIndex ==
    \/ \E msg \in ReplyIndexLines :
          \/ CmdRecipient(msg)
          \/ CmdSend(msg)
          \/ CmdReply(msg)
    \/ \E ok \in BOOLEAN :
          \/ ResolveReturn(ok)
          \/ SendReturn(ok)
          \/ ReplyScanReturn(ok)
    \/ Handler
    \/ \E text \in InboundTexts : Arrive(Dialogs[2].id, FALSE, text)

SpecReplyIndex == Init /\ [][NextReplyIndex]_vars

\* The pending reply the line asks for, n being a key of the table
AsksForIndexed(c, n) ==
    /\ c.reply_to_msg_id = chat.message_index_map[n].id
    /\ LET content == format_message_content(chat.message_index_map[n])
       IN  c.reply_snippet =
               IF Len(content) > SnippetLen
               THEN SubSeq(content, Len(content) - SnippetLen + 1, Len(content))
               ELSE content

\* The step, or the scan it starts, leaves the pending reply as it was and
\* has printed an error
NotFound ==
    /\ current_chat' = current_chat
    /\ pc' = "prompt"
    /\ "error" \in out'
    /\ call' = NoCall

\* C24: /reply n with a numeric n that is not a key of indexTable reports
\* NotFound and leaves pendingReply exactly as it was; with n present it sets
\* pendingReply to the id of indexTable[n] and a snippet equal to the last 15
\* characters of its rendered content, or the whole content if it has at most
\* 15 characters.
C24_ReplyByIndex ==
    [][\A msg \in ReplyIndexLines :
          (CmdReply(msg) /\ current_chat # None /\ Len(cmd_of[msg]) = 2
           /\ int_ok(cmd_of[msg][2]))
              => LET n == int(cmd_of[msg][2])
                 IN  IF n \in DOMAIN chat.message_index_map
                     THEN /\ AsksForIndexed(current_chat'[1], n)
                          /\ pc' = "prompt"
                     ELSE NotFound]_vars

\* The same for the numbers written with digits only
C24_ReplyByUnsignedIndex ==
    [][\A msg \in ReplyIndexLines :
          (CmdReply(msg) /\ current_chat # None /\ Len(cmd_of[msg]) = 2
           /\ AllAsciiDigits(cmd_of[msg][2]))
              => LET n == int(cmd_of[msg][2])
                 IN  IF n \in DOMAIN chat.message_index_map
                     THEN /\ AsksForIndexed(current_chat'[1], n)
                          /\ pc' = "prompt"
                     ELSE NotFound]_vars

\* A reply is pending whose snippet is the cut end of a longer content
C24_SnippetCut ==
    /\ current_chat # None
    /\ chat.reply_to_msg_id # 0
    /\ Len(chat.reply_snippet) = SnippetLen
    /\ \E i \in DOMAIN chat.message_index_map :
          /\ chat.message_index_map[i].id = chat.reply_to_msg_id
          /\ Len(format_message_content(chat.message_index_map[i])) > SnippetLen

\* The dialogs among the given ones that the filter lets through
Matching(dialogs, filter_type) ==
    SelectSeq(dialogs, LAMBDA d :
        \/ filter_type = ""
        \/ filter_type = "user" /\ d.kind = "User"
        \/ filter_type = "group" /\ d.kind = "Group"
        \/ filter_type = "channel" /\ d.kind = "Channel")

\* C25: after any /chats invocation the cached chat list equals, position by
\* position, the entries that invocation printed -- the dialogs it was given
\* that match the requested type filter, up to the count, even when the
\* dialog fetch failed partway -- and a subsequent /c n with 1 <= n <= number
\* of printed entries opens a new session whose peer is the n-th printed
\* entity.
C25_CacheIsWhatWasPrinted ==
    /\ [][\A n \in 0..Len(Dialogs), ok \in BOOLEAN :
             ChatsReturn(n, ok)
                 => LET matching == Matching(SubSeq(Dialogs, 1, n), locals.filter_type)
                        count == IF locals.target_count < 1 THEN 1
                                 ELSE locals.target_count
                    IN  /\ chat_list_cache' =
                               SubSeq(matching, 1,
                                      IF Len(matching) < count THEN Len(matching)
                                      ELSE count)
                        /\ ("plain" \in out') = (chat_list_cache' # <<>>)
                        /\ ~ok => "error" \in out']_vars
    /\ [][\A msg \in ListingLines :
             (CmdJump(msg) /\ int_ok(cmd_of[msg][2])
              /\ int(cmd_of[msg][2]) \in 1..Len(chat_list_cache))
                 => /\ current_chat' # None
                    /\ current_chat'[1].entity = chat_list_cache[int(cmd_of[msg][2])]
                    /\ current_chat'[1].message_index_map = <<>>
                    /\ current_chat'[1].next_index = 1
                    /\ current_chat'[1].reply_to_msg_id = 0
                    /\ chat_list_cache' = chat_list_cache]_vars

\* The session open is the one of the only entry of a listing of groups
C25_OpenedFromFilteredList ==
    /\ current_chat # None
    /\ chat_list_cache = <<Dialogs[2]>>
    /\ chat.entity = Dialogs[2]
    /\ pc = "prompt"

----------------------------------------------------------------------------
(* /r [name]: the resolution of the name *)

ResolveLines ==
    { <<"h", "i">>,
      Line(<<s_reply, <<"1">>>>),
      Line(<<<<"/", "r">>, <<"b", "o", "b">>>>),
      Line(<<<<"/", "r">>, <<"B", "O", "B">>>>),
      Line(<<<<"/", "r">>, <<"o", "b">>>>),
      Line(<<<<"/", "r">>, <<"@", "b", "b">>>>),
      Line(<<<<"/", "r">>, <<"z", "e", "d">>>>) }

NextResolve ==
    \/ \E msg \in ResolveLines :
          \/ CmdRecipient(msg)
          \/ CmdReply(msg)
          \/ CmdSend(msg)
    \/ \E ok \in BOOLEAN :
          \/ ResolveReturn(ok)
          \/ OpenStatusReturn(ok)
          \/ SendReturn(ok)
    \/ Handler
    \/ \E peer \in PeerIds, text \in InboundTexts : Arrive(peer, FALSE, text)

SpecResolve == Init /\ [][NextResolve]_vars

\* No dialog goes by the name, whole or in part, nor by the username
Unknown(target_input) ==
    \A i \in DOMAIN Dialogs :
        /\ ~contains(lower(Dialogs[i].name), lower(target_input))
        /\ lower(Dialogs[i].username) # remove_at(lower(target_input))

\* C26: if /r <name> fails to resolve a peer (no match in any category) or
\* the backend raises during resolution, an error is reported and the current
\* session is unchanged: the same ChatSession with the same indexTable,
\* nextIndex and pendingReply remains current, or the state stays Closed.
C26_FailedResolutionChangesNothing ==
    /\ [][(pc = "resolve" /\ pc' # "resolve" /\ Unknown(locals.target_input))
             => call'.answered = "resolve"]_vars
    /\ [][(pc = "resolve" /\ call'.answered = "resolve")
             => /\ current_chat' = current_chat
                /\ pc' = "prompt"
                /\ "error" \in out']_vars

\* A resolution has just failed, and the session still holds its messages and
\* its pending reply
C26_ResolutionFailedInSession ==
    /\ call.answered = "resolve"
    /\ current_chat # None
    /\ chat.reply_to_msg_id # 0
    /\ chat.next_index > 2

\* The entity goes by the name exactly: by display name or by username
MatchesExactly(entity, target_input) ==
    \/ lower(entity.name) = lower(target_input)
    \/ entity.username # <<>>
       /\ lower(entity.username) = remove_at(lower(target_input))

\* C27: peer resolution by /r <name> prefers an exact match over a substring
\* match independent of dialog order: if some dialog's display name equals
\* <name> case-insensitively, the opened peer is a dialog matching <name>
\* exactly (by display name or username) and never a dialog that merely
\* contains <name> as a substring, even if the substring match comes earlier in
\* the dialog list.
C27_ExactBeforeSubstring ==
    [][(/\ pc = "resolve"
        /\ pc' # "resolve"
        /\ call'.answered # "resolve"
        /\ \E i \in DOMAIN Dialogs :
              lower(Dialogs[i].name) = lower(locals.target_input))
          => /\ current_chat' # None
             /\ MatchesExactly(current_chat'[1].entity, locals.target_input)
             /\ current_chat'[1].message_index_map = <<>>]_vars

\* The session is open on the dialog that goes by the name, the second of the
\* list, the first one going by a name that contains it
C27_ExactOpenedPastSubstring ==
    /\ current_chat # None
    /\ pc = "prompt"
    /\ chat.entity = Dialogs[2]
    /\ contains(lower(Dialogs[1].name), lower(Dialogs[2].name))
    /\ Dialogs[1].name # Dialogs[2].name

----------------------------------------------------------------------------
(* Date separators, with midnight passing *)

DateLines ==
    { <<"h", "i">>,
      Line(<<<<"/", "r">>, <<"b", "o", "b">>>>),
      Line(<<<<"/", "s", "e", "t">>, s_defaultHistory, <<"2">>>>),
      Line(<<s_h, <<"2">>>>) }

NextDates ==
    \/ \E msg \in DateLines :
          \/ CmdSettings(msg)
          \/ CmdRecipient(msg)
          \/ CmdHistory(msg)
          \/ CmdSend(msg)
    \/ \E ok \in BOOLEAN :
          \/ ResolveReturn(ok)
          \/ FetchReturn(ok)
          \/ SendReturn(ok)
    \/ Handler
    \/ \E text \in InboundTexts : Arrive(Dialogs[2].id, FALSE, text)
    \/ Tick

SpecDates == Init /\ [][NextDates]_vars

\* The listener prints a separator exactly when the event's date differs from
\* lastRenderedDate, and sets lastRenderedDate to it
ListenerSeparates ==
    (Handler /\ ~ForeignEvent)
        => /\ ("date" \in out') = (Head(updates).date # chat.last_message_date)
           /\ current_chat'[1].last_message_date = Head(updates).date

\* lastRenderedDate changes only in a step that prints a date line, and a
\* session starts at today's date with its "Today" line
SeparatorRemembered ==
    /\ (current_chat # None /\ current_chat' # None
        /\ current_chat'[1].last_message_date # chat.last_message_date)
           => "date" \in out'
    /\ (current_chat = None /\ current_chat' # None)
           => ("date" \in out' /\ current_chat'[1].last_message_date = today)

----------------------------------------------------------------------------
(* A reply pending over a reload of the history *)

\* C29: from the /history line to the return of its fetch, a pending reply's
\* target id and snippet stay as they are, and the send that follows hands the
\* backend that id, whether or not the rebuilt table still holds the message
\* or holds it under the index it had.
C29_ReloadKeepsPendingReply ==
    /\ [][(/\ current_chat # None
           /\ chat.reply_to_msg_id # 0
           /\ \/ pc = "fetch"
              \/ \E msg \in SessionLines : CmdHistory(msg))
             => /\ current_chat' # None
                /\ current_chat'[1].reply_to_msg_id = chat.reply_to_msg_id
                /\ current_chat'[1].reply_snippet = chat.reply_snippet]_vars
    /\ [][\A msg \in SessionLines :
             (CmdSend(msg) /\ current_chat # None)
                 => /\ call'.op = "send_message"
                    /\ call'.reply_to = chat.reply_to_msg_id]_vars

\* A send on its way with a reply target the reloaded table no longer holds
C29_SendsTargetOutsideTable ==
    /\ pc = "send"
    /\ call.reply_to # 0
    /\ chat.next_index = 3
    /\ \A i \in DOMAIN chat.message_index_map :
          chat.message_index_map[i].id # call.reply_to

\* A send on its way with a reply target that was chosen as index 1 and that
\* the reloaded table holds under index 2
C29_SendsTargetRenumbered ==
    /\ pc = "send"
    /\ call.reply_to # 0
    /\ 2 \in DOMAIN chat.message_index_map
    /\ chat.message_index_map[2].id = call.reply_to
    /\ chat.message_index_map[1].id # call.reply_to

----------------------------------------------------------------------------
(* /delete and the session it is typed in *)

DeleteReplyLines ==
    { <<"h", "i">>,
      Line(<<<<"/", "r">>, <<"b", "o", "b">>>>),
      Line(<<s_reply, <<"2">>>>),
      Line(<<s_del, <<"2">>>>),
      Line(<<s_del, <<"1">>, <<"9">>, <<"x">>, <<"2">>>>) }

\* Replies chosen and messages deleted in one conversation
NextDeleteReply ==
    \/ \E msg \in DeleteReplyLines :
          \/ CmdRecipient(msg)
          \/ CmdReply(msg)
          \/ CmdDelete(msg)
          \/ CmdSend(msg)
    \/ \E confirm \in ConfirmAnswers : DeleteConfirm(confirm)
    \/ \E ok \in BOOLEAN :
          \/ ResolveReturn(ok)
          \/ SendReturn(ok)
          \/ DeleteReturn(ok)
    \/ Handler
    \/ \E text \in InboundTexts : Arrive(Dialogs[2].id, FALSE, text)

SpecDeleteReply == Init /\ [][NextDeleteReply]_vars

\* The ids the backend holds for the current peer
Held == {store[chat.entity.id][i].id : i \in DOMAIN store[chat.entity.id]}

\* C30: no step of /delete (the line, the answer to its confirmation, the
\* return of the backend, succeeding or not) changes the session's indexTable,
\* nextIndex or pendingReply.
C30_DeleteLeavesSession ==
    [][(/\ current_chat # None
        /\ \/ \E msg \in DeleteReplyLines : CmdDelete(msg)
           \/ \E confirm \in ConfirmAnswers : DeleteConfirm(confirm)
           \/ \E ok \in BOOLEAN : DeleteReturn(ok))
          => /\ current_chat' # None
             /\ current_chat'[1].message_index_map = chat.message_index_map
             /\ current_chat'[1].next_index = chat.next_index
             /\ current_chat'[1].reply_to_msg_id = chat.reply_to_msg_id
             /\ current_chat'[1].reply_snippet = chat.reply_snippet]_vars

\* A delete that succeeded on the message a pending reply targets: the backend
\* no longer holds it, the table still has it under index 2, the reply is set
C30_DeletedStillTargeted ==
    /\ pc = "prompt"
    /\ call.answered = "delete"
    /\ ~call.failed
    /\ 2 \in DOMAIN chat.message_index_map
    /\ chat.message_index_map[2].id \notin Held
    /\ chat.reply_to_msg_id = chat.message_index_map[2].id

\* A second /delete that found a deleted message under its index
C30_DeletedAskedAgain ==
    /\ pc = "confirm"
    /\ \E i \in DOMAIN locals.msgs_to_delete : locals.msgs_to_delete[i].id \notin Held

\* A delete that failed at the backend, with a reply pending
C30_FailedStillTargeted ==
    /\ pc = "prompt"
    /\ call.answered = "delete"
    /\ call.failed
    /\ chat.reply_to_msg_id # 0
    /\ chat.reply_to_msg_id \in Held

====
